---- MODULE Spec2Model ----
(***************************************************************************)
(* Trading Signal Bus of prism-insight.                                    *)
(*                                                                         *)
(*  - the polling consumer of examples/messaging/redis_subscriber_example  *)
(*    (initial cursor, XREAD poll loop, per-entry decode, handle_signal,   *)
(*    execute_buy_trade / execute_sell_trade);                             *)
(*  - the Redis Streams publisher of messaging/redis_signal_publisher;     *)
(*  - the retrying senders of telegram_bot_agent (send_message,            *)
(*    send_document).                                                      *)
(*                                                                         *)
(* Stream ids are modelled by the position of the entry in the stream      *)
(* (1, 2, ...); the start id "0" is 0.                                     *)
(***************************************************************************)
EXTENDS Integers, Sequences, FiniteSets, TLC

\* ------------------------------------------------------------------ bounds
\* Longest stream of the general consumer specifications.
MaxLog == 3
\* Longest stream of the specifications that exercise the XREAD batch limit.
MaxBatchLog == 11
\* Consumer runs (first start plus restarts) of the restart specification.
MaxRuns == 2
\* Publish calls made on one publisher.
MaxPublishCalls == 2
\* publish_signal calls in progress at the same time on one publisher.
MaxConcurrent == 2
\* Largest max_retries a caller of send_message / send_document passes.
MaxRetriesArg == 3
\* Largest retry_after (seconds) the Telegram server asks for.
MaxRetryAfter == 3

\* --------------------------------------------------------- program constants
\* redis.xread({stream_name: last_id}, count=10)
XreadCount == 10
\* send_message(..., max_retries=3), send_document(..., max_retries=3)
DefaultMaxRetries == 3

\* ltrim(HEALTH_LOG_KEY, 0, 99): the number of entries the trim keeps
HealthLogCap == 100

\* Health-check runs made in one behaviour
MaxHealthRuns == 3

\* Message files in the directory, and runs of process_messages_directory
MaxFiles == 2
MaxDirRuns == 2

\* Analysis requests queued for the background worker
MaxRequests == 3

VARIABLES
    log,            \* the stream prism:trading-signals: sequence of wire entries
    from_beginning, \* args.from_beginning
    dry_run,        \* args.dry_run
    pc,             \* position of the consumer process
    last_id,        \* the consumer's cursor
    batch,          \* ids of the XREAD result still to be processed in this cycle
    message_count,  \* main: message_count
    trade_count,    \* main: trade_count {"BUY": n, "SELL": m}
    trade_result,   \* what the last execute_*_trade call gave its caller
    order,          \* history: ids in the order handle_signal first took them (this run)
    redispatched,   \* history: ids handle_signal took more than once (this run)
    execCalls,      \* history: calls into the trading backend (this run)
    reExecuted,     \* history: ids executed more than once (this run)
    startLen,       \* history: length of the stream when the consumer resolved its cursor
    tail_failed,    \* history: a startup tail lookup (XREVRANGE) of the consumer raised
    last_error,     \* history: exception class raised by the last consumer step, or "none"
    stop_cause,     \* history: why the poll loop ended
    stop_pc,        \* history: where the consumer was when the stop signal arrived
    run,            \* history: number of the current consumer run
    prevCursor,     \* history: cursor of the previous run when it stopped (-1: no previous run)
    returned,       \* history: ids whose handle_signal call returned (this run)
    launch,         \* how the consumer process was launched and how it exited
    tg,             \* one call of TelegramBotAgent.send_message / send_document
    pub,            \* the SignalPublisher object and what its last call did
    pub_calls,      \* history: number of publish calls made so far
    conc,           \* the publish_signal calls that run concurrently on one publisher
    health,         \* the list prism:health:log and the run of RedisHealthChecker on it
    outbox,         \* the message directory and the run of process_messages_directory on it
    worker          \* analysis_queue, the requests and the background worker thread

consumerVars == <<from_beginning, dry_run, pc, last_id, batch, message_count,
                  trade_count, trade_result, order, redispatched, execCalls,
                  reExecuted, startLen, tail_failed, last_error, stop_cause, stop_pc, run,
                  prevCursor, returned, launch>>

publisherVars == <<pub, pub_calls, conc, health, outbox, worker>>

vars == <<log, consumerVars, tg, publisherVars>>

\* ------------------------------------------------------------ JSON values
\* A JSON scalar with its Python type.
Num(n) == [t |-> "num", n |-> n, s |-> ""]
Str(s) == [t |-> "str", n |-> 0, s |-> s]

\* Python truthiness of a scalar: 0 and "" are falsy.
Truthy(v) == IF v.t = "num" THEN v.n # 0 ELSE v.s # ""

\* dict.get(key, default)
Get(m, k, default) == IF k \in DOMAIN m THEN m[k] ELSE default

\* The text of a stream field value. kind "object": JSON text of a mapping;
\* "array": JSON text of a value that is not a mapping; "garbage": not JSON;
\* "empty": the empty string.
JsonText(kind, value) == [kind |-> kind, value |-> value]
NoValue == [k \in {} |-> Str("")]

\* A raw field value as the client returns it: str or bytes.
Raw(isBytes, text) == [bytes |-> isBytes, text |-> text]

\* A wire entry: the field data of one stream entry. shape "dict": a mapping;
\* "list": the flat list [k1, v1, k2, v2, ...] of upstash-redis (keys and vals
\* are its elements at even and odd positions: an odd-length list has one key
\* more than values); "other": neither.
Wire(shape, keys, vals) == [shape |-> shape, keys |-> keys, vals |-> vals]

\* -------------------------------------------------------------- exceptions
\* Classes derived from Exception, which `except Exception` catches.
ExceptionClasses == {"IndexError", "AttributeError", "JSONDecodeError", "ValueError",
                     "KeyError", "ImportError", "ConnectionError", "TimeoutError",
                     "Exception"}

\* ---------------------------------------------------------------- the log
\* Mutant: the read ignores the cursor and returns the stream from its start.
XReadIgnoresCursor(stream, cursor, count) ==
    [i \in 1..(IF Len(stream) < count THEN Len(stream) ELSE count) |-> i]

\* read_after: XREAD {stream: cursor} COUNT count: the entries with an id above
\* the cursor, oldest first, at most count of them (as ids).
XRead(stream, cursor, count) ==
    LET hi == IF Len(stream) < cursor + count THEN Len(stream) ELSE cursor + count
    IN  [i \in 1..(IF hi > cursor THEN hi - cursor ELSE 0) |-> cursor + i]

\* tail: XREVRANGE stream COUNT 1: the newest entry's id, if any.
XRevRange1(stream) == IF Len(stream) = 0 THEN <<>> ELSE <<Len(stream)>>

\* ------------------------------------------------------------ the consumer
\* Mutant: the cursor starts one id above the newest entry.
InitialCursorAhead(fromBeginning, stream, tailOk) ==
    IF fromBeginning THEN 0 ELSE Len(stream) + 1

\* main, "시작 ID 결정": the cursor the consumer starts with. tailOk: whether
\* the XREVRANGE call returned (TRUE) or raised (FALSE).
InitialCursor(fromBeginning, stream, tailOk) ==
    IF fromBeginning THEN 0
    ELSE IF ~tailOk THEN 0
    ELSE LET last_entries == XRevRange1(stream)
         IN  IF last_entries # <<>> THEN last_entries[1] ELSE 0

\* parse_stream_data: a mapping is returned as it is, a list is paired up
\* (data[i]: data[i+1], a later pair overriding an earlier one), anything else
\* is returned as it is. exc is the exception the comprehension raises.
parse_stream_data(data) ==
    IF data.shape = "dict"
    THEN [exc |-> "none", isMap |-> TRUE,
          map |-> [k \in {data.keys[i] : i \in 1..Len(data.keys)} |->
                     data.vals[CHOOSE i \in 1..Len(data.keys) : data.keys[i] = k]]]
    ELSE IF data.shape = "list"
    THEN IF Len(data.keys) # Len(data.vals)
         THEN [exc |-> "IndexError", isMap |-> FALSE, map |-> NoValue]
         ELSE [exc |-> "none", isMap |-> TRUE,
               map |-> [k \in {data.keys[i] : i \in 1..Len(data.keys)} |->
                          LET last == CHOOSE i \in 1..Len(data.keys) :
                                        /\ data.keys[i] = k
                                        /\ \A j \in 1..Len(data.keys) :
                                              data.keys[j] = k => j <= i
                          IN  data.vals[last]]]
    ELSE [exc |-> "none", isMap |-> FALSE, map |-> NoValue]

\* Mutant: True / False are written as the numbers 1 / 0.
JsonTokenBoolAsNumber(v) ==
    IF v.t = "str" THEN [j |-> "string", n |-> 0, s |-> v.s]
    ELSE [j |-> "number", n |-> v.n, s |-> ""]

\* The JSON token json.dumps writes for a scalar: a number literal, a quoted
\* string (ensure_ascii=False: the characters as they are), true or false.
JsonToken(v) ==
    IF v.t = "num" THEN [j |-> "number", n |-> v.n, s |-> ""]
    ELSE IF v.t = "str" THEN [j |-> "string", n |-> 0, s |-> v.s]
    ELSE [j |-> IF v.n = 1 THEN "true" ELSE "false", n |-> 0, s |-> ""]

\* json.dumps(signal_data, ensure_ascii=False): TypeError on a value that is
\* not JSON serialisable.
json_dumps(m) ==
    IF \E k \in DOMAIN m : m[k].t = "obj"
    THEN [exc |-> "TypeError", text |-> JsonText("garbage", NoValue)]
    ELSE [exc |-> "none", text |-> JsonText("object", [k \in DOMAIN m |-> JsonToken(m[k])])]

\* The Python value json.loads makes of a JSON token.
JsonValue(tok) ==
    IF tok.j = "number" THEN [t |-> "num", n |-> tok.n, s |-> ""]
    ELSE IF tok.j = "string" THEN [t |-> "str", n |-> 0, s |-> tok.s]
    ELSE [t |-> "bool", n |-> IF tok.j = "true" THEN 1 ELSE 0, s |-> ""]

\* json.loads of a field text.
json_loads(text) ==
    IF text.kind \in {"garbage", "empty"}
    THEN [exc |-> "JSONDecodeError", isMap |-> FALSE, value |-> NoValue]
    ELSE [exc |-> "none", isMap |-> text.kind = "object",
          value |-> [k \in DOMAIN text.value |-> JsonValue(text.value[k])]]

\* Poll loop, lines 355-360: parse the entry, take its "data" field, decode it.
\* skip: the entry has no (or an empty) data field and is passed over.
DecodeEntry(data) ==
    LET parsed == parse_stream_data(data)
    IN  IF parsed.exc # "none"
        THEN [exc |-> parsed.exc, skip |-> FALSE, isMap |-> FALSE, signal |-> NoValue]
        ELSE IF ~parsed.isMap
        THEN [exc |-> "AttributeError", skip |-> FALSE, isMap |-> FALSE, signal |-> NoValue]
        ELSE IF "data" \notin DOMAIN parsed.map \/ parsed.map["data"].text.kind = "empty"
        THEN [exc |-> "none", skip |-> TRUE, isMap |-> FALSE, signal |-> NoValue]
        ELSE LET loaded == json_loads(parsed.map["data"].text)
             IN  [exc |-> loaded.exc, skip |-> FALSE, isMap |-> loaded.isMap,
                  signal |-> loaded.value]

\* format(value, ",.0f") and format(value, "+.2f") accept numbers only.
Formattable(v) == v.t = "num"

\* handle_signal up to its (possible) call of the execution adapter: the
\* exception it raises before that call ("none" if it raises none) and the
\* adapter call it makes.
HandleSignalRaises(isMap, signal) ==
    IF ~isMap THEN "AttributeError"
    ELSE LET signal_type == Get(signal, "type", Str("UNKNOWN"))
         IN  IF ~Formattable(Get(signal, "price", Num(0))) THEN "ValueError"
             ELSE IF signal_type = Str("BUY")
             THEN IF \E k \in {"target_price", "stop_loss"} :
                        /\ Truthy(Get(signal, k, Num(0)))
                        /\ ~Formattable(Get(signal, k, Num(0)))
                  THEN "ValueError" ELSE "none"
             ELSE IF signal_type = Str("SELL")
             THEN IF \/ /\ Truthy(Get(signal, "buy_price", Num(0)))
                        /\ ~Formattable(Get(signal, "buy_price", Num(0)))
                     \/ ~Formattable(Get(signal, "profit_rate", Num(0)))
                  THEN "ValueError" ELSE "none"
             ELSE "none"

\* Mutant: the dry-run flag is not consulted.
HandleSignalCallIgnoresDryRun(signal, dryRun) ==
    LET signal_type == Get(signal, "type", Str("UNKNOWN"))
    IN  IF signal_type = Str("BUY") THEN "buy"
        ELSE IF signal_type = Str("SELL") THEN "sell"
        ELSE "none"

\* Mutant: BUY and SELL are routed to each other's call.
HandleSignalCallSwapped(signal, dryRun) ==
    LET signal_type == Get(signal, "type", Str("UNKNOWN"))
    IN  IF signal_type = Str("BUY") /\ ~dryRun THEN "sell"
        ELSE IF signal_type = Str("SELL") /\ ~dryRun THEN "buy"
        ELSE "none"

\* handle_signal, lines 289 and 311: the adapter call made for a signal.
HandleSignalCall(signal, dryRun) ==
    LET signal_type == Get(signal, "type", Str("UNKNOWN"))
    IN  IF signal_type = Str("BUY") /\ ~dryRun THEN "buy"
        ELSE IF signal_type = Str("SELL") /\ ~dryRun THEN "sell"
        ELSE "none"

\* ------------------------------------------------------ execution adapter
\* A structured result {success, message}.
Result(success, message) == [raised |-> "none", success |-> success, message |-> message]
Raised(exc) == [raised |-> exc, success |-> FALSE, message |-> ""]
NoResult == [raised |-> "none", success |-> FALSE, message |-> "no call yet"]

\* What the trading backend does on one call.
BackendOutcomes == {"ok", "rejected", "no_message", "import_error", "timeout", "error"}

\* The try body of execute_buy_trade / execute_sell_trade: the import, the
\* backend call in its context, the logging that reads success and message.
ExecuteTryBody(outcome) ==
    CASE outcome = "ok"           -> Result(TRUE, "order placed")
      [] outcome = "rejected"     -> Result(FALSE, "order rejected")
      [] outcome = "no_message"   -> Raised("KeyError")
      [] outcome = "import_error" -> Raised("ImportError")
      [] outcome = "timeout"      -> Raised("TimeoutError")
      [] OTHER                    -> Raised("Exception")

\* Mutant: the adapter catches nothing.
ExecuteExceptNothing(exc) == Raised(exc)

\* Mutant: only the import error is caught.
ExecuteExceptImportOnly(exc) ==
    IF exc = "ImportError" THEN Result(FALSE, "Import error")
    ELSE Raised(exc)

\* The except clauses of execute_buy_trade / execute_sell_trade.
ExecuteExcept(exc) ==
    IF exc = "ImportError" THEN Result(FALSE, "Import error")
    ELSE IF exc \in ExceptionClasses THEN Result(FALSE, exc)   \* str(e)
    ELSE Raised(exc)

\* execute_buy_trade / execute_sell_trade: one backend call, no retry.
ExecuteTrade(outcome) ==
    LET body == ExecuteTryBody(outcome)
    IN  IF body.raised = "none" THEN body ELSE ExecuteExcept(body.raised)

\* Mutant: after an exception the loop polls again at once, without the sleep.
PollLoopExceptNoWait(exc) ==
    IF exc \in ExceptionClasses THEN [pc |-> "poll", cause |-> "none"]
    ELSE [pc |-> "stopped", cause |-> exc]

\* Mutant: only connection errors are caught in the loop.
PollLoopExceptNarrow(exc) ==
    IF exc = "ConnectionError" THEN [pc |-> "sleep", cause |-> "none"]
    ELSE [pc |-> "stopped", cause |-> exc]

\* The poll loop's handler for an exception raised in a cycle (lines 375-377,
\* 379-382): an Exception is logged and followed by a sleep; anything else
\* leaves the loop.
PollLoopExcept(exc) ==
    IF exc \in ExceptionClasses THEN [pc |-> "sleep", cause |-> "none"]
    ELSE [pc |-> "stopped", cause |-> exc]

\* ------------------------------------------------------- telegram senders
\* No call of send_message / send_document in progress. trace: history, the
\* outcome of each request made so far (with the retry_after of a RetryAfter);
\* waits: history, the durations of the sleeps that have returned.
TgIdle == [op |-> "none", pc |-> "idle", parse_mode |-> FALSE, backend |-> "any",
           max_retries |-> 0, retry_count |-> 0, attempts |-> 0, fallbacks |-> 0,
           wait |-> 0, slept |-> 0, then |-> "none", result |-> "none",
           trace |-> <<>>, waits |-> <<>>, fallback |-> "none"]

\* A call as the caller makes it: retry_count = 0. backend "always_timeout" is
\* a Telegram backend that raises TimedOut on every request.
TgCall(op, parseMode, maxRetries, backend) ==
    [TgIdle EXCEPT !.op = op, !.pc = "attempt", !.parse_mode = parseMode,
                   !.max_retries = maxRetries, !.backend = backend]

\* What one bot.send_message / bot.send_document request does.
TgOutcomes(backend) ==
    IF backend = "always_timeout" THEN {"TimedOut"}
    ELSE {"ok", "RetryAfter", "TimedOut", "ParseError", "TelegramError"}

\* Mutant: one retry more than max_retries.
MayRetryInclusive(retry_count, max_retries) == retry_count <= max_retries

\* `if retry_count < max_retries` of the RetryAfter and TimedOut handlers.
MayRetry(retry_count, max_retries) == retry_count < max_retries

\* Mutant: the wait grows by one second per retry.
Pow2Linear(n) == n + 1

\* 2 ** retry_count
Pow2(n) == IF n = 0 THEN 1 ELSE IF n = 1 THEN 2 ELSE IF n = 2 THEN 4
           ELSE IF n = 3 THEN 8 ELSE IF n = 4 THEN 16 ELSE 32

\* Mutant: the wait is retry_after without the margin.
RateLimitWaitNoMargin(retry_after) == retry_after

\* wait_time = e.retry_after + 1
RateLimitWait(retry_after) == retry_after + 1

\* The call returned r.
TgReturn(t, r) == [t EXCEPT !.pc = "done", !.result = r, !.then = "none"]

\* Mutant: any other error is retried like a timeout.
TgTelegramErrorRetried(a, outcome) ==
    IF MayRetry(a.retry_count, a.max_retries)
    THEN [a EXCEPT !.pc = "sleep", !.wait = 1, !.then = "retry"]
    ELSE TgReturn(a, FALSE)

\* Mutant: the unformatted attempt is made after any error, whatever its
\* message.
TgTelegramErrorAnyMessage(a, outcome) ==
    IF a.op = "send_message" /\ a.parse_mode
    THEN [a EXCEPT !.pc = "fallback"]
    ELSE TgReturn(a, FALSE)

\* The `except TelegramError` handlers: send_message tests parse_mode and the
\* error's message and goes on to the unformatted attempt; everything else,
\* and send_document always, returns False.
TgTelegramError(a, outcome) ==
    IF a.op = "send_message" /\ a.parse_mode /\ outcome = "ParseError"
    THEN [a EXCEPT !.pc = "fallback"]
    ELSE TgReturn(a, FALSE)

\* One run of the body of send_message / send_document at the current
\* retry_count, the request having had the given outcome; retry_after is the
\* server's wait of a RetryAfter.
TgAttempt(t, outcome, retry_after) ==
    LET a == [t EXCEPT !.attempts = @ + 1,
                       !.trace = Append(@, [outcome |-> outcome,
                                            retry_after |-> IF outcome = "RetryAfter"
                                                            THEN retry_after ELSE 0])]
    IN  CASE outcome = "ok" -> TgReturn(a, TRUE)
          [] outcome = "RetryAfter" ->
                \* asyncio.sleep first, the retry_count test after it
                [a EXCEPT !.pc = "sleep", !.wait = RateLimitWait(retry_after),
                          !.then = IF MayRetry(a.retry_count, a.max_retries)
                                   THEN "retry" ELSE "give_up"]
          [] outcome = "TimedOut" ->
                IF MayRetry(a.retry_count, a.max_retries)
                THEN [a EXCEPT !.pc = "sleep", !.wait = Pow2(a.retry_count),
                               !.then = "retry"]
                ELSE TgReturn(a, FALSE)
          [] OTHER -> TgTelegramError(a, outcome)

\* asyncio.sleep(wait_time) returned: the recursive call with retry_count + 1,
\* or False.
TgAfterSleep(t) ==
    LET a == [t EXCEPT !.slept = @ + 1, !.waits = Append(@, t.wait)]
    IN  IF a.then = "retry"
        THEN [a EXCEPT !.pc = "attempt", !.retry_count = @ + 1, !.then = "none"]
        ELSE TgReturn(a, FALSE)

\* Mutant: a failed unformatted attempt is made once more.
TgFallbackAgain(t, outcome) ==
    LET a == [t EXCEPT !.fallbacks = @ + 1, !.fallback = outcome]
    IN  IF outcome = "ok" \/ a.fallbacks >= 2 THEN TgReturn(a, outcome = "ok") ELSE a

\* send_message, lines 141-151: the attempt without parse_mode.
TgFallback(t, outcome) ==
    LET a == [t EXCEPT !.fallbacks = @ + 1, !.fallback = outcome]
    IN  TgReturn(a, outcome = "ok")

TgAttemptStep ==
    /\ tg.pc = "attempt"
    /\ \E outcome \in TgOutcomes(tg.backend), retry_after \in 1..MaxRetryAfter :
          tg' = TgAttempt(tg, outcome, retry_after)
    /\ UNCHANGED <<log, consumerVars, publisherVars>>

TgSleepStep ==
    /\ tg.pc = "sleep"
    /\ tg' = TgAfterSleep(tg)
    /\ UNCHANGED <<log, consumerVars, publisherVars>>

TgFallbackStep ==
    /\ tg.pc = "fallback"
    /\ \E outcome \in TgOutcomes(tg.backend) : tg' = TgFallback(tg, outcome)
    /\ UNCHANGED <<log, consumerVars, publisherVars>>

\* ---------------------------------------------------------- the publisher
\* A value json.dumps cannot serialise (a datetime, a Decimal, ...).
Obj(s) == [t |-> "obj", n |-> 0, s |-> s]
\* True / False
Bool(b) == [t |-> "bool", n |-> IF b THEN 1 ELSE 0, s |-> ""]

\* An absent optional argument (None).
None == [k \in {} |-> Str("")]

\* dict.update / the merge of two mappings: the second wins.
Update(base, over) ==
    [k \in DOMAIN base \cup DOMAIN over |->
        IF k \in DOMAIN over THEN over[k] ELSE base[k]]

\* datetime.now().isoformat(): the clock is not modelled.
Timestamp == Str("2025-01-01T09:00:00")

\* Mutant: the whole scenario is merged into the record.
BuildSignalDataWholeScenario(a) ==
    LET fixed == [type |-> Str(a.signal_type), ticker |-> a.ticker,
                  company_name |-> a.company_name, price |-> a.price,
                  source |-> a.source, timestamp |-> Timestamp]
    IN  Update(Update(fixed, a.scenario), a.extra_data)

\* publish_signal, lines 137-157: the record built from the arguments.
BuildSignalData(a) ==
    LET fixed == [type |-> Str(a.signal_type), ticker |-> a.ticker,
                  company_name |-> a.company_name, price |-> a.price,
                  source |-> a.source, timestamp |-> Timestamp]
        projected ==
            IF a.scenario # None
            THEN [target_price |-> Get(a.scenario, "target_price", Num(0)),
                  stop_loss |-> Get(a.scenario, "stop_loss", Num(0)),
                  investment_period |-> Get(a.scenario, "investment_period", Str("")),
                  sector |-> Get(a.scenario, "sector", Str("")),
                  rationale |-> Get(a.scenario, "rationale", Str("")),
                  buy_score |-> Get(a.scenario, "buy_score", Num(0))]
            ELSE None
    IN  Update(Update(fixed, projected), a.extra_data)

\* The entry XADD stores for {"data": text}, as a reader's client returns it.
PublishedEntry(text) == Wire("list", <<"data">>, <<Raw(FALSE, text)>>)

\* Mutant: XADD answers with the id of the entry before the new one.
XAddIdStale(stream) == Len(stream)

\* The id XADD gives the entry it appends to the stream (id "*").
XAddId(stream) == Len(stream) + 1

\* What a publish call gives its caller.
RetNull == [kind |-> "null", id |-> 0]
RetId(id) == [kind |-> "id", id |-> id]
RetRaised == [kind |-> "raised", id |-> 0]
RetNone == [kind |-> "none", id |-> 0]

\* Mutant: the exception is not caught.
PublishExceptReraises(exc) == RetRaised

\* publish_signal, lines 174-176: the except clause: log and return None.
PublishExcept(exc) == RetNull

\* publish_signal on a publisher whose client is `redis` ("none": no client),
\* against a backend on which XADD does `backend` ("ok" or "error"):
\* ret: what the caller gets; appended: the entries added to the stream;
\* xadds: the XADD requests made; exc: the exception raised inside.
PublishSignal(redis, a, backend, stream) ==
    IF redis = "none"
    THEN [ret |-> RetNull, appended |-> <<>>, xadds |-> 0, exc |-> "none"]
    ELSE LET dumped == json_dumps(BuildSignalData(a))
         IN  IF dumped.exc # "none"
             THEN [ret |-> PublishExcept(dumped.exc), appended |-> <<>>,
                   xadds |-> 0, exc |-> dumped.exc]
             ELSE IF backend # "ok"
             THEN [ret |-> PublishExcept("ConnectionError"), appended |-> <<>>,
                   xadds |-> 1, exc |-> "ConnectionError"]
             ELSE IF ~Formattable(a.price)
             \* the logging after XADD formats the price
             THEN [ret |-> PublishExcept("ValueError"),
                   appended |-> <<PublishedEntry(dumped.text)>>,
                   xadds |-> 1, exc |-> "ValueError"]
             ELSE [ret |-> RetId(XAddId(stream)),
                   appended |-> <<PublishedEntry(dumped.text)>>,
                   xadds |-> 1, exc |-> "none"]

\* Mutant: the two fields are set whether or not a trade_result is passed.
TradeResultFieldsAlways(tradeResult) ==
    [trade_success |-> Get(tradeResult, "success", Bool(FALSE)),
     trade_message |-> Get(tradeResult, "message", Str(""))]

\* The fields publish_buy_signal / publish_sell_signal fold in from a
\* trade_result.
TradeResultFields(tradeResult) ==
    IF tradeResult # None
    THEN [trade_success |-> Get(tradeResult, "success", Bool(FALSE)),
          trade_message |-> Get(tradeResult, "message", Str(""))]
    ELSE None

\* publish_buy_signal: the publish_signal arguments it passes on.
BuySignalArgs(ticker, company_name, price, scenario, source, tradeResult) ==
    [signal_type |-> "BUY", ticker |-> ticker, company_name |-> company_name,
     price |-> price, source |-> source, scenario |-> scenario,
     extra_data |-> TradeResultFields(tradeResult)]

\* publish_sell_signal: the publish_signal arguments it passes on.
SellSignalArgs(ticker, company_name, price, buy_price, profit_rate, sell_reason, tradeResult) ==
    [signal_type |-> "SELL", ticker |-> ticker, company_name |-> company_name,
     price |-> price, source |-> Str("AI Analysis"), scenario |-> None,
     extra_data |-> Update([buy_price |-> buy_price, profit_rate |-> profit_rate,
                            sell_reason |-> sell_reason],
                           TradeResultFields(tradeResult))]

\* Mutant: the event source is not passed on.
EventSignalArgsNoSource(ticker, company_name, price, event_type, event_source, event_description) ==
    [signal_type |-> "EVENT", ticker |-> ticker, company_name |-> company_name,
     price |-> price, source |-> Str("AI Analysis"), scenario |-> None,
     extra_data |-> [event_type |-> event_type,
                     event_description |-> event_description]]

\* publish_event_signal: the publish_signal arguments it passes on.
EventSignalArgs(ticker, company_name, price, event_type, event_source, event_description) ==
    [signal_type |-> "EVENT", ticker |-> ticker, company_name |-> company_name,
     price |-> price, source |-> event_source, scenario |-> None,
     extra_data |-> [event_type |-> event_type,
                     event_description |-> event_description]]

\* Mutant: connect does not look at the credentials.
ConnectResultUnguarded(url, token, redis, outcome) ==
    IF outcome = "ok" THEN [redis |-> "client", created |-> 1]
    ELSE IF outcome = "import_error" THEN [redis |-> redis, created |-> 0]
    ELSE [redis |-> "none", created |-> 0]

\* SignalPublisher.connect on a publisher whose _redis is `redis`: the client
\* it leaves in _redis and the clients it created. outcome: "ok",
\* "import_error" (upstash-redis is not installed: _redis is left as it was)
\* or "error" (the client constructor raised: _redis is reset).
ConnectResult(url, token, redis, outcome) ==
    IF ~url \/ ~token THEN [redis |-> redis, created |-> 0]
    ELSE IF outcome = "ok" THEN [redis |-> "client", created |-> 1]
    ELSE IF outcome = "import_error" THEN [redis |-> redis, created |-> 0]
    ELSE [redis |-> "none", created |-> 0]

\* No publish call made yet.
NoCall == [fn |-> "none"]
NoArgs == [signal_type |-> "", ticker |-> Str(""), company_name |-> Str(""),
           price |-> Num(0), source |-> Str(""), scenario |-> None,
           extra_data |-> None]

\* SignalPublisher.__init__: url / token say whether the URL and the token are
\* given (argument or environment). call (history): the last publish call;
\* args (history): the publish_signal arguments it came to; appended (history):
\* the entries it added to the stream.
NewPublisher(url, token) ==
    [made |-> TRUE, url |-> url, token |-> token, redis |-> "none", connects |-> 0,
     created |-> 0, xadds |-> 0, ret |-> RetNone, exc |-> "none",
     call |-> NoCall, args |-> NoArgs, appended |-> 0, id |-> 0]
NoPublisher ==
    [made |-> FALSE, url |-> FALSE, token |-> FALSE, redis |-> "none", connects |-> 0,
     created |-> 0, xadds |-> 0, ret |-> RetNone, exc |-> "none",
     call |-> NoCall, args |-> NoArgs, appended |-> 0, id |-> 0]

\* process_messages_directory is not running; the directory holds no message
\* file. files: per file, whether it is in the directory under a name that
\* matches *_telegram.txt, and how often send_message returned True for it.
NoOutbox ==
    [pc |-> "idle", files |-> <<>>, sent_dir |-> FALSE, queue |-> <<>>,
     success_count |-> 0, returned |-> 0, sent_now |-> 0, runs |-> 0,
     raised |-> FALSE]

\* The worker thread waits at analysis_queue.get(); nothing was ever queued.
NoWorker ==
    [pc |-> "get", queue |-> <<>>, request |-> 0, evaluate |-> <<>>,
     status |-> <<>>, pending_requests |-> {}, result_queue |-> <<>>,
     task_done |-> 0, taken |-> 0, outcomes |-> <<>>]

\* The keepalive check: no run in progress, the list holding n entries. An entry is the number of
\* the push that made it; the head of the list is the newest entry.
HealthIdle(n) ==
    [pc |-> 0, runs |-> 0, pushes |-> n, list |-> [i \in 1..n |-> n + 1 - i],
     success |-> FALSE, raised |-> FALSE]

InitNoPublisher == pub = NoPublisher /\ pub_calls = 0 /\ conc = <<>> /\ health = HealthIdle(0) /\ outbox = NoOutbox /\ worker = NoWorker

\* Arguments the callers pass.
Scenarios ==
    {None,
     [target_price |-> Num(90000), stop_loss |-> Num(78000)],
     [target_price |-> Num(90000), stop_loss |-> Num(78000),
      investment_period |-> Str("short"), sector |-> Str("semiconductor"),
      rationale |-> Str("momentum"), buy_score |-> Num(8),
      max_portfolio_size |-> Num(10)],
     [rationale |-> Obj("datetime")]}
TradeResults ==
    {None,
     [success |-> Bool(TRUE), message |-> Str("order placed")],
     [error |-> Str("no balance")]}
Prices == {Num(82000), Str("N/A")}

\* The calls the callers make: the three wrappers, and publish_signal itself
\* with a scenario and an extra_data that overlap.
PublishCalls ==
    {[fn |-> "publish_buy_signal", ticker |-> Str("005930"),
      company_name |-> Str("Samsung Electronics"), price |-> price,
      scenario |-> scenario, source |-> Str("AI Analysis"),
      trade_result |-> tradeResult] :
        price \in Prices, scenario \in Scenarios, tradeResult \in TradeResults}
    \cup
    {[fn |-> "publish_sell_signal", ticker |-> Str("000660"),
      company_name |-> Str("SK hynix"), price |-> Num(120000),
      buy_price |-> Num(100000), profit_rate |-> Num(20),
      sell_reason |-> Str("target reached"), trade_result |-> tradeResult] :
        tradeResult \in TradeResults}
    \cup
    {[fn |-> "publish_event_signal", ticker |-> Str("005930"),
      company_name |-> Str("Samsung Electronics"), price |-> Num(82000),
      event_type |-> Str("NEWS"), event_source |-> Str("Reuters"),
      event_description |-> Str("earnings")]}
    \cup
    {[fn |-> "publish_signal",
      args |-> [signal_type |-> "BUY", ticker |-> Str("005930"),
                company_name |-> Str("Samsung Electronics"), price |-> Num(82000),
                source |-> Str("AI Analysis"),
                scenario |-> [target_price |-> Num(90000),
                              max_portfolio_size |-> Num(10)],
                extra_data |-> [target_price |-> Num(95000),
                                ticker |-> Str("000660")]]]}

\* The publish_signal arguments of a call.
CallArgs(c) ==
    CASE c.fn = "publish_buy_signal" ->
            BuySignalArgs(c.ticker, c.company_name, c.price, c.scenario, c.source,
                          c.trade_result)
      [] c.fn = "publish_sell_signal" ->
            SellSignalArgs(c.ticker, c.company_name, c.price, c.buy_price,
                           c.profit_rate, c.sell_reason, c.trade_result)
      [] c.fn = "publish_event_signal" ->
            EventSignalArgs(c.ticker, c.company_name, c.price, c.event_type,
                            c.event_source, c.event_description)
      [] OTHER -> c.args

PublishArgs == {CallArgs(c) : c \in PublishCalls}

\* connect()
PubConnect ==
    /\ pub.made
    /\ pub.connects < 2
    /\ \E outcome \in {"ok", "import_error", "error"} :
          LET c == ConnectResult(pub.url, pub.token, pub.redis, outcome)
          IN  pub' = [pub EXCEPT !.redis = c.redis,
                                 !.created = @ + c.created,
                                 !.connects = @ + 1]
    /\ UNCHANGED <<log, consumerVars, tg, pub_calls, conc, health, outbox, worker>>

\* disconnect()
PubDisconnect ==
    /\ pub.made
    /\ pub.redis # "none"
    /\ pub' = [pub EXCEPT !.redis = "none"]
    /\ UNCHANGED <<log, consumerVars, tg, pub_calls, conc, health, outbox, worker>>

\* publish_signal, directly or through publish_buy_signal, publish_sell_signal
\* or publish_event_signal.
PubPublish ==
    /\ pub.made
    /\ pub_calls < MaxPublishCalls
    /\ \E c \in PublishCalls, backend \in {"ok", "error"} :
          LET a == CallArgs(c)
              r == PublishSignal(pub.redis, a, backend, log)
          IN  /\ pub' = [pub EXCEPT !.ret = r.ret, !.exc = r.exc, !.xadds = @ + r.xadds,
                                     !.call = c, !.args = a,
                                     !.appended = Len(r.appended)]
              /\ log' = log \o r.appended
    /\ pub_calls' = pub_calls + 1
    /\ UNCHANGED <<consumerVars, tg, conc, health, outbox, worker>>

\* ---------------------------------------------- concurrent publish calls
\* The calls made concurrently: different types, tickers and extra fields.
ConcCalls ==
    {c \in PublishCalls :
        \/ /\ c.fn = "publish_buy_signal"
           /\ c.price = Num(82000)
           /\ c.scenario = [target_price |-> Num(90000), stop_loss |-> Num(78000)]
           /\ c.trade_result # None /\ "success" \in DOMAIN c.trade_result
        \/ c.fn = "publish_sell_signal" /\ c.trade_result = None
        \/ c.fn = "publish_event_signal"}

\* A publish_signal call that has not started: signal_data is its local
\* variable, ret what it returned.
ConcCall(c) == [pc |-> "build", call |-> c, signal_data |-> None, ret |-> RetNone]

\* Call i builds its record (lines 137-157) in its local signal_data.
ConcBuild(i) ==
    /\ conc[i].pc = "build"
    /\ conc' = [conc EXCEPT ![i].pc = "xadd",
                            ![i].signal_data = BuildSignalData(CallArgs(conc[i].call))]
    /\ UNCHANGED <<log, consumerVars, tg, pub, pub_calls, health, outbox, worker>>

\* Call i sends its XADD request (lines 162-166): the backend appends the
\* entry and answers with its id, which the call keeps in message_id.
ConcXadd(i) ==
    /\ conc[i].pc = "xadd"
    /\ log' = Append(log, PublishedEntry(json_dumps(conc[i].signal_data).text))
    /\ conc' = [conc EXCEPT ![i].pc = "return", ![i].ret = RetId(XAddId(log))]
    /\ pub' = [pub EXCEPT !.xadds = @ + 1]
    /\ UNCHANGED <<consumerVars, tg, pub_calls, health, outbox, worker>>

\* Call i logs and returns message_id (lines 168-172).
ConcReturn(i) ==
    /\ conc[i].pc = "return"
    /\ conc' = [conc EXCEPT ![i].pc = "done"]
    /\ UNCHANGED <<log, consumerVars, tg, pub, pub_calls, health, outbox, worker>>

\* ------------------------------------------------------------ sample data
SigBuy == [type |-> Str("BUY"), ticker |-> Str("005930"),
           company_name |-> Str("Samsung Electronics"), price |-> Num(82000),
           target_price |-> Num(90000), stop_loss |-> Num(78000)]
SigSell == [type |-> Str("SELL"), ticker |-> Str("000660"),
            company_name |-> Str("SK hynix"), price |-> Num(120000),
            buy_price |-> Num(100000), profit_rate |-> Num(20),
            sell_reason |-> Str("target reached")]
SigEvent == [type |-> Str("EVENT"), ticker |-> Str("005930"),
             company_name |-> Str("Samsung Electronics"), price |-> Num(82000),
             event_type |-> Str("NEWS"), event_description |-> Str("earnings")]
SigHold == [type |-> Str("HOLD"), ticker |-> Str("005930"),
            company_name |-> Str("Samsung Electronics"), price |-> Num(82000)]
SigBadPrice == [type |-> Str("BUY"), ticker |-> Str("005930"),
                company_name |-> Str("Samsung Electronics"), price |-> Str("N/A")]

\* Entries as the publisher writes them ({"data": json}) and as the client
\* returns them (mapping or flat list, str or bytes).
EntryBuy   == Wire("dict", <<"data">>, <<Raw(FALSE, json_dumps(SigBuy).text)>>)
EntrySell  == Wire("list", <<"data">>, <<Raw(TRUE, json_dumps(SigSell).text)>>)
EntryEvent == Wire("list", <<"data">>, <<Raw(FALSE, json_dumps(SigEvent).text)>>)
EntryHold  == Wire("dict", <<"data">>, <<Raw(TRUE, json_dumps(SigHold).text)>>)
\* Entries some other writer put on the stream.
EntryBadJson    == Wire("list", <<"data">>, <<Raw(FALSE, JsonText("garbage", NoValue))>>)
EntryOddList    == Wire("list", <<"data">>, <<>>)
EntryNotMapping == Wire("dict", <<"data">>, <<Raw(FALSE, JsonText("array", NoValue))>>)
EntryNoData     == Wire("list", <<"payload">>, <<Raw(FALSE, json_dumps(SigBuy).text)>>)
EntryBadPrice   == Wire("dict", <<"data">>, <<Raw(FALSE, json_dumps(SigBadPrice).text)>>)

\* A BUY record without a ticker field.
EntryNoTicker == Wire("list", <<"data">>, <<Raw(FALSE, json_dumps([type |-> Str("BUY"), company_name |-> Str("Samsung Electronics"), price |-> Num(82000)]).text)>>)
WellFormedEntries == {EntryBuy, EntrySell, EntryEvent}
MalformedEntries  == {EntryBadJson, EntryOddList, EntryNotMapping}
\* The entries of the general specification: one of each behaviour.
AllEntries        == WellFormedEntries \cup {EntryBadJson, EntryNoData, EntryBadPrice}

\* ---------------------------------------------------------------- actions
\* Some writer appends an entry to the stream (XADD with an auto-generated id).
AppendEntry(entries, bound) ==
    /\ Len(log) < bound
    /\ \E e \in entries : log' = Append(log, e)
    /\ UNCHANGED <<consumerVars, tg, publisherVars>>

\* A launch of the consumer: whether --redis-url / UPSTASH_REDIS_REST_URL and
\* --redis-token / UPSTASH_REDIS_REST_TOKEN are given, whether the
\* upstash-redis package can be imported, and the exit status of the process
\* (-1 while it runs).
Launch(url, token, installed) ==
    [redis_url |-> url, redis_token |-> token, installed |-> installed,
     exit_status |-> -1]

\* The launch of a configured consumer.
Configured == Launch(TRUE, TRUE, TRUE)

\* Lines 203-215: main returns before it connects when the URL or the token is
\* missing or the package cannot be imported.
StartupReturns(l) == ~l.redis_url \/ ~l.redis_token \/ ~l.installed

\* The exit status of the interpreter running `main()` as the script's last
\* statement: 0 when main returns, 1 when an exception leaves it.
ExitStatus(ending) == IF ending = "return" THEN 0 ELSE 1

\* main up to the poll loop: the credential check, the import, the initial
\* cursor.
Startup ==
    /\ pc = "init"
    /\ IF StartupReturns(launch)
       THEN /\ pc' = "exited"
            /\ launch' = [launch EXCEPT !.exit_status = ExitStatus("return")]
            /\ UNCHANGED <<last_id, tail_failed, startLen>>
       ELSE /\ \E tailOk \in BOOLEAN :
                  /\ last_id' = InitialCursor(from_beginning, log, tailOk)
                  /\ tail_failed' = (tail_failed \/ (~from_beginning /\ ~tailOk))
            /\ pc' = "poll"
            /\ startLen' = Len(log)
            /\ UNCHANGED launch
    /\ last_error' = "none"
    /\ UNCHANGED <<tg, publisherVars, log, from_beginning, dry_run, batch, message_count, trade_count,
                   trade_result, order, redispatched, execCalls, reExecuted,
                   stop_cause, stop_pc, run, prevCursor, returned>>

\* The except clause of the poll loop took exception exc.
CycleFails(exc) ==
    /\ pc' = PollLoopExcept(exc).pc
    /\ stop_cause' = PollLoopExcept(exc).cause
    /\ last_error' = exc
    /\ batch' = <<>>
    /\ UNCHANGED returned

\* Mutant: the cursor is moved one id too far.
EntryDoneSkips(msg_id, counted, signal_type) ==
    /\ message_count' = IF counted THEN message_count + 1 ELSE message_count
    /\ trade_count' = IF counted /\ signal_type \in DOMAIN trade_count
                      THEN [trade_count EXCEPT ![signal_type] = @ + 1]
                      ELSE trade_count
    /\ last_id' = msg_id + 1
    /\ batch' = Tail(batch)
    /\ pc' = IF Tail(batch) = <<>> THEN "poll" ELSE "dispatch"
    /\ returned' = IF counted THEN returned \cup {msg_id} ELSE returned
    /\ last_error' = "none"
    /\ UNCHANGED stop_cause

\* Mutant: the cursor is moved to the end of the batch at once.
EntryDoneBulk(msg_id, counted, signal_type) ==
    /\ message_count' = IF counted THEN message_count + 1 ELSE message_count
    /\ trade_count' = IF counted /\ signal_type \in DOMAIN trade_count
                      THEN [trade_count EXCEPT ![signal_type] = @ + 1]
                      ELSE trade_count
    /\ last_id' = batch[Len(batch)]
    /\ batch' = Tail(batch)
    /\ pc' = IF Tail(batch) = <<>> THEN "poll" ELSE "dispatch"
    /\ returned' = IF counted THEN returned \cup {msg_id} ELSE returned
    /\ last_error' = "none"
    /\ UNCHANGED stop_cause

\* Mutant: the loop sleeps after the last entry of a batch.
EntryDoneThenSleep(msg_id, counted, signal_type) ==
    /\ message_count' = IF counted THEN message_count + 1 ELSE message_count
    /\ trade_count' = IF counted /\ signal_type \in DOMAIN trade_count
                      THEN [trade_count EXCEPT ![signal_type] = @ + 1]
                      ELSE trade_count
    /\ last_id' = msg_id
    /\ batch' = Tail(batch)
    /\ pc' = IF Tail(batch) = <<>> THEN "sleep" ELSE "dispatch"
    /\ returned' = IF counted THEN returned \cup {msg_id} ELSE returned
    /\ last_error' = "none"
    /\ UNCHANGED stop_cause

\* Lines 362-370: the handler returned; count the message and move the cursor
\* to the entry.
EntryDone(msg_id, counted, signal_type) ==
    /\ message_count' = IF counted THEN message_count + 1 ELSE message_count
    /\ trade_count' = IF counted /\ signal_type \in DOMAIN trade_count
                      THEN [trade_count EXCEPT ![signal_type] = @ + 1]
                      ELSE trade_count
    /\ last_id' = msg_id
    /\ batch' = Tail(batch)
    /\ pc' = IF Tail(batch) = <<>> THEN "poll" ELSE "dispatch"
    /\ returned' = IF counted THEN returned \cup {msg_id} ELSE returned
    /\ last_error' = "none"
    /\ UNCHANGED stop_cause

\* Mutant: the read consumes: the first entry it returns is overwritten in
\* the stream.
PollOkConsuming ==
    /\ pc = "poll"
    /\ LET result == XRead(log, last_id, XreadCount)
       IN  IF result # <<>>
           THEN /\ pc' = "dispatch" /\ batch' = result
                /\ log' = [log EXCEPT ![result[1]] = EntryNoData]
           ELSE pc' = "sleep" /\ batch' = <<>> /\ log' = log
    /\ last_error' = "none"
    /\ UNCHANGED <<tg, publisherVars, launch, from_beginning, dry_run, last_id, message_count, trade_count,
                   trade_result, order, redispatched, execCalls, reExecuted, startLen,
                   tail_failed, stop_cause, stop_pc, run, prevCursor, returned>>

\* redis.xread returned.
PollOk ==
    /\ pc = "poll"
    /\ LET result == XRead(log, last_id, XreadCount)
       IN  IF result # <<>>
           THEN pc' = "dispatch" /\ batch' = result
           ELSE pc' = "sleep" /\ batch' = <<>>
    /\ last_error' = "none"
    /\ UNCHANGED <<tg, publisherVars, launch, log, from_beginning, dry_run, last_id, message_count, trade_count,
                   trade_result, order, redispatched, execCalls, reExecuted, startLen,
                   tail_failed, stop_cause, stop_pc, run, prevCursor, returned>>

\* redis.xread raised (network failure, HTTP error).
PollFail ==
    /\ pc = "poll"
    /\ CycleFails("ConnectionError")
    /\ UNCHANGED <<tg, publisherVars, launch, log, from_beginning, dry_run, last_id, message_count, trade_count,
                   trade_result, order, redispatched, execCalls, reExecuted, startLen,
                   tail_failed, stop_pc, run, prevCursor>>

\* time.sleep(polling_interval) returned.
Wake ==
    /\ pc = "sleep"
    /\ pc' = "poll"
    /\ last_error' = "none"
    /\ UNCHANGED <<tg, publisherVars, launch, log, from_beginning, dry_run, last_id, batch, message_count,
                   trade_count, trade_result, order, redispatched, execCalls,
                   reExecuted, startLen, tail_failed, stop_cause, stop_pc, run,
                   prevCursor, returned>>

\* One entry of the batch, lines 353-370, up to the adapter call if one is made.
ProcessEntry ==
    /\ pc = "dispatch"
    /\ LET msg_id == Head(batch)
           d == DecodeEntry(log[msg_id])
           hexc == HandleSignalRaises(d.isMap, d.signal)
           call == HandleSignalCall(d.signal, dry_run)
           handled == d.exc = "none" /\ ~d.skip
           seen == \E i \in 1..Len(order) : order[i] = msg_id
       IN  /\ order' = IF handled /\ ~seen THEN Append(order, msg_id) ELSE order
           /\ redispatched' = IF handled /\ seen THEN redispatched \cup {msg_id}
                              ELSE redispatched
           /\ IF d.exc # "none"
              THEN /\ CycleFails(d.exc)
                   /\ UNCHANGED <<last_id, message_count, trade_count, execCalls, reExecuted>>
              ELSE IF d.skip
              THEN /\ EntryDone(msg_id, FALSE, "")
                   /\ UNCHANGED <<execCalls, reExecuted>>
              ELSE IF hexc # "none"
              THEN /\ CycleFails(hexc)
                   /\ UNCHANGED <<last_id, message_count, trade_count, execCalls, reExecuted>>
              ELSE IF call # "none"
              THEN /\ pc' = "exec"
                   /\ execCalls' = execCalls \cup
                         {[id |-> msg_id, op |-> call,
                           ticker |-> Get(d.signal, "ticker", Str(""))]}
                   /\ reExecuted' = IF \E c \in execCalls : c.id = msg_id
                                    THEN reExecuted \cup {msg_id} ELSE reExecuted
                   /\ last_error' = "none"
                   /\ UNCHANGED <<last_id, batch, message_count, trade_count, stop_cause,
                                  returned>>
              ELSE /\ EntryDone(msg_id, TRUE, Get(d.signal, "type", Str("")).s)
                   /\ UNCHANGED <<execCalls, reExecuted>>
    /\ UNCHANGED <<tg, publisherVars, launch, log, from_beginning, dry_run, trade_result, startLen, tail_failed, stop_pc,
                   run, prevCursor>>

\* asyncio.run(execute_buy_trade(...)) / execute_sell_trade returned to
\* handle_signal, which returns to the loop.
ExecReturn ==
    /\ pc = "exec"
    /\ \E outcome \in BackendOutcomes :
          LET r == ExecuteTrade(outcome)
              msg_id == Head(batch)
              d == DecodeEntry(log[msg_id])
          IN  /\ trade_result' = r
              /\ IF r.raised # "none"
                 THEN /\ CycleFails(r.raised)
                      /\ UNCHANGED <<last_id, message_count, trade_count>>
                 ELSE EntryDone(msg_id, TRUE, Get(d.signal, "type", Str("")).s)
    /\ UNCHANGED <<tg, publisherVars, launch, log, from_beginning, dry_run, order, redispatched, execCalls,
                   reExecuted, startLen, tail_failed, stop_pc, run, prevCursor>>

\* KeyboardInterrupt: the process is interrupted and main returns.
Stop ==
    /\ pc \in {"poll", "sleep", "dispatch", "exec"}
    /\ pc' = "stopped"
    /\ stop_cause' = "interrupt"
    /\ stop_pc' = pc
    /\ last_error' = "none"
    /\ launch' = [launch EXCEPT !.exit_status = ExitStatus("return")]
    /\ UNCHANGED <<tg, publisherVars, log, from_beginning, dry_run, last_id, batch, message_count,
                   trade_count, trade_result, order, redispatched, execCalls,
                   reExecuted, startLen, tail_failed, run, prevCursor, returned>>

\* The operator starts the consumer again with the same options. Nothing of
\* the previous run is kept: main builds its state anew.
Restart ==
    /\ pc = "stopped"
    /\ run < MaxRuns
    /\ run' = run + 1
    /\ prevCursor' = last_id
    /\ pc' = "init"
    /\ last_id' = 0
    /\ batch' = <<>>
    /\ message_count' = 0
    /\ trade_count' = [BUY |-> 0, SELL |-> 0]
    /\ trade_result' = NoResult
    /\ order' = <<>>
    /\ redispatched' = {}
    /\ execCalls' = {}
    /\ reExecuted' = {}
    /\ startLen' = 0
    /\ last_error' = "none"
    /\ stop_cause' = "none"
    /\ returned' = {}
    /\ launch' = [launch EXCEPT !.exit_status = -1]
    /\ UNCHANGED <<tg, publisherVars, log, from_beginning, dry_run, tail_failed, stop_pc>>

\* ------------------------------------------------------ keepalive check
\* The Redis requests of perform_health_check, in the order it makes them.
HealthOps == <<"ping", "setex", "incr", "expire", "lpush", "ltrim", "expire",
               "get", "llen">>

\* run_health_check: connect, then perform_health_check up to its try block.
HealthStart ==
    /\ health.pc = 0
    /\ health.runs < MaxHealthRuns
    /\ health' = [health EXCEPT !.pc = 1, !.runs = @ + 1, !.success = FALSE,
                                !.raised = FALSE]
    /\ UNCHANGED <<log, consumerVars, tg, pub, pub_calls, conc, outbox, worker>>

\* One request of the try block. It returns, and the run goes on to the next
\* one (after the last one: success, return results); or it raises, and the
\* except clause re-raises: the run is over, nothing more is sent.
HealthStep ==
    /\ health.pc \in 1..Len(HealthOps)
    /\ \E ok \in BOOLEAN :
          LET op == HealthOps[health.pc]
              last == health.pc = Len(HealthOps)
              pushed == <<health.pushes + 1>> \o health.list
              trimmed == SubSeq(health.list, 1,
                                IF Len(health.list) < HealthLogCap
                                THEN Len(health.list) ELSE HealthLogCap)
          IN  IF ~ok
              THEN health' = [health EXCEPT !.pc = 0, !.raised = TRUE]
              ELSE health' = [health EXCEPT
                     !.pc = IF last THEN 0 ELSE @ + 1,
                     !.success = last,
                     !.pushes = IF op = "lpush" THEN @ + 1 ELSE @,
                     !.list = IF op = "lpush" THEN pushed
                              ELSE IF op = "ltrim" THEN trimmed ELSE @]
    /\ UNCHANGED <<log, consumerVars, tg, pub, pub_calls, conc, outbox, worker>>

\* -------------------------------------------------------- specifications
InitLaunched(fromBeginnings, dryRuns, launches) ==
    /\ log = <<>>
    /\ launch \in launches
    /\ returned = {}
    /\ from_beginning \in fromBeginnings
    /\ dry_run \in dryRuns
    /\ pc = "init"
    /\ last_id = 0
    /\ batch = <<>>
    /\ message_count = 0
    /\ trade_count = [BUY |-> 0, SELL |-> 0]
    /\ trade_result = NoResult
    /\ order = <<>>
    /\ redispatched = {}
    /\ execCalls = {}
    /\ reExecuted = {}
    /\ startLen = 0
    /\ tail_failed = FALSE
    /\ last_error = "none"
    /\ stop_cause = "none"
    /\ stop_pc = "none"
    /\ run = 1
    /\ prevCursor = -1

\* A consumer launched with its credentials and the package installed.
InitConsumer(fromBeginnings, dryRuns) ==
    InitLaunched(fromBeginnings, dryRuns, {Configured})

\* Every way of launching the consumer.
Launches == {Launch(url, token, installed) : url \in BOOLEAN, token \in BOOLEAN,
                                            installed \in BOOLEAN}

\* The consumer, launched in any way, live or dry-run, from the beginning or
\* new-only, on a stream that any writer appends to.
Init == InitLaunched(BOOLEAN, BOOLEAN, Launches) /\ tg = TgIdle /\ InitNoPublisher

Publish == AppendEntry(AllEntries, MaxLog)

Next ==
    \/ Publish
    \/ Startup
    \/ PollOk
    \/ PollFail
    \/ Wake
    \/ ProcessEntry
    \/ ExecReturn
    \/ Stop

Spec == Init /\ [][Next]_vars

\* The keepalive script run from cron, on a list of any length up to the cap.
HealthInit ==
    /\ InitConsumer({FALSE}, {TRUE})
    /\ tg = TgIdle
    /\ pub = NoPublisher /\ pub_calls = 0 /\ conc = <<>>
    /\ \E n \in 0..HealthLogCap : health = HealthIdle(n)
    /\ outbox = NoOutbox /\ worker = NoWorker

HealthNext ==
    \/ HealthStart
    \/ HealthStep

HealthSpec == HealthInit /\ [][HealthNext]_vars

\* A consumer that is stopped between cycles or entries and started again, on a
\* stream of well-formed entries.
RestartInit == InitConsumer(BOOLEAN, {TRUE}) /\ tg = TgIdle /\ InitNoPublisher

PublishWellFormed == AppendEntry({EntryBuy, EntryEvent}, MaxLog)

RestartNext ==
    \/ PublishWellFormed
    \/ Startup
    \/ PollOk
    \/ PollFail
    \/ Wake
    \/ ProcessEntry
    \/ Stop
    \/ Restart

RestartSpec == RestartInit /\ [][RestartNext]_vars

\* The i-th entry of the long stream: BUY, SELL and EVENT in turn.
BatchEntry(i) ==
    IF i % 3 = 1 THEN EntryBuy ELSE IF i % 3 = 2 THEN EntrySell ELSE EntryEvent

\* A --from-beginning consumer that is left running on a stream of well-formed
\* entries longer than one XREAD batch. The loop is single-threaded and every
\* call in it returns, so each enabled step is eventually taken; reads may fail
\* any number of times but succeed again and again.
BatchInit == InitConsumer({TRUE}, BOOLEAN) /\ tg = TgIdle /\ InitNoPublisher

PublishBatch == AppendEntry({BatchEntry(Len(log) + 1)}, MaxBatchLog)

BatchNext ==
    \/ PublishBatch
    \/ Startup
    \/ PollOk
    \/ PollFail
    \/ Wake
    \/ ProcessEntry
    \/ ExecReturn

ConsumerFairness ==
    /\ WF_vars(Startup)
    /\ SF_vars(PollOk)
    /\ WF_vars(Wake)
    /\ WF_vars(ProcessEntry)
    /\ WF_vars(ExecReturn)

BatchSpec == BatchInit /\ [][BatchNext]_vars /\ ConsumerFairness

\* The same consumer, left running on a short stream that holds at most one
\* malformed entry among well-formed ones.
MalformedCount == Cardinality({i \in 1..Len(log) : log[i] \in MalformedEntries})

PublishOnePoison ==
    \/ AppendEntry({EntryBuy, EntryEvent}, MaxLog)
    \/ MalformedCount = 0 /\ AppendEntry(MalformedEntries, MaxLog)

PoisonNext ==
    \/ PublishOnePoison
    \/ Startup
    \/ PollOk
    \/ PollFail
    \/ Wake
    \/ ProcessEntry
    \/ ExecReturn

PoisonSpec == BatchInit /\ [][PoisonNext]_vars /\ ConsumerFairness

\* A consumer started without --from-beginning and left running while writers
\* append at any moment, before and after its startup: entries that decode and
\* that the handler takes without raising, one of them a BUY without ticker.
StartInit == InitConsumer({FALSE}, BOOLEAN) /\ tg = TgIdle /\ InitNoPublisher

PublishAnyTime == AppendEntry({EntryEvent, EntryNoTicker}, MaxLog)

StartNext ==
    \/ PublishAnyTime
    \/ Startup
    \/ PollOk
    \/ PollFail
    \/ Wake
    \/ ProcessEntry
    \/ ExecReturn

StartSpec == StartInit /\ [][StartNext]_vars /\ ConsumerFairness

\* A live consumer on a stream of signals of every type, one of them a BUY
\* whose price is not a number.
RouteInit == InitConsumer(BOOLEAN, {FALSE}) /\ tg = TgIdle /\ InitNoPublisher

PublishTyped ==
    AppendEntry({EntryBuy, EntrySell, EntryEvent, EntryHold, EntryBadPrice}, MaxLog)

RouteNext ==
    \/ PublishTyped
    \/ Startup
    \/ PollOk
    \/ PollFail
    \/ Wake
    \/ ProcessEntry
    \/ ExecReturn
    \/ Stop

RouteSpec == RouteInit /\ [][RouteNext]_vars

\* One call of send_message or send_document, with any max_retries, against a
\* backend that answers anything or one that always times out.
RetryInit ==
    /\ InitConsumer({FALSE}, {TRUE})
    /\ InitNoPublisher
    /\ \E op \in {"send_message", "send_document"}, parseMode \in BOOLEAN,
          maxRetries \in 0..MaxRetriesArg, backend \in {"any", "always_timeout"} :
          /\ op = "send_document" => parseMode
          /\ tg = TgCall(op, parseMode, maxRetries, backend)

RetryNext ==
    \/ TgAttemptStep
    \/ TgSleepStep
    \/ TgFallbackStep

RetrySpec == RetryInit /\ [][RetryNext]_vars

\* The event loop runs the coroutine: a request returns or raises, a sleep
\* returns.
RetryLiveSpec == RetrySpec /\ WF_vars(RetryNext)

\* One publisher, constructed with or without the URL and the token, connected,
\* disconnected and called by its callers.
PubInit ==
    /\ InitConsumer({FALSE}, {TRUE})
    /\ tg = TgIdle
    /\ \E url \in BOOLEAN, token \in BOOLEAN : pub = NewPublisher(url, token)
    /\ pub_calls = 0
    /\ conc = <<>>
    /\ health = HealthIdle(0) /\ outbox = NoOutbox /\ worker = NoWorker

PubNext ==
    \/ PubConnect
    \/ PubDisconnect
    \/ PubPublish

PubSpec == PubInit /\ [][PubNext]_vars

\* k publish calls started together on one connected publisher with a working
\* backend, their steps interleaved in every way.
ConcInit ==
    /\ InitLaunched({FALSE}, {TRUE}, {Configured})
    /\ tg = TgIdle
    /\ pub = [NewPublisher(TRUE, TRUE) EXCEPT !.redis = "client", !.connects = 1,
                                              !.created = 1]
    /\ pub_calls = 0
    /\ \E k \in 1..MaxConcurrent : conc \in [1..k -> {ConcCall(c) : c \in ConcCalls}]
    /\ health = HealthIdle(0) /\ outbox = NoOutbox /\ worker = NoWorker

\* Callers of the module-level publish_buy_signal / publish_sell_signal, run
\* as tasks of one event loop; pub is _global_publisher (None: not made). A
\* task is suspended at an await that waits; get_signal_publisher has none
\* (connect is a coroutine without an await of its own).
GlobalInit ==
    /\ InitLaunched({FALSE}, {TRUE}, {Configured})
    /\ tg = TgIdle
    /\ pub = NoPublisher
    /\ pub_calls = 0
    /\ health = HealthIdle(0) /\ outbox = NoOutbox /\ worker = NoWorker
    /\ \E k \in 1..MaxConcurrent :
          conc \in [1..k -> {[pc |-> "get", call |-> c, inst |-> 0, made |-> FALSE,
                              ret |-> RetNone] :
                                c \in {x \in ConcCalls : x.fn # "publish_event_signal"}}]

\* Mutant: the global is not tested: every caller makes and connects a
\* publisher of its own.
GlobalGetNoTest ==
    \E i \in DOMAIN conc :
        /\ conc[i].pc = "get"
        /\ \E url \in BOOLEAN, token \in BOOLEAN, outcome \in {"ok", "import_error", "error"} :
              LET c == ConnectResult(url, token, "none", outcome)
              IN  pub' = [NewPublisher(url, token) EXCEPT
                            !.redis = c.redis, !.created = c.created,
                            !.connects = 1, !.id = i]
        /\ conc' = [conc EXCEPT ![i].pc = "publish", ![i].inst = i, ![i].made = TRUE]
        /\ UNCHANGED <<log, consumerVars, tg, pub_calls, health, outbox, worker>>

\* get_signal_publisher, run by caller i: the test of the global, and when it
\* is None the construction (credentials from the environment) and connect.
GlobalGet ==
    \E i \in DOMAIN conc :
        /\ conc[i].pc = "get"
        /\ IF ~pub.made
           THEN /\ \E url \in BOOLEAN, token \in BOOLEAN,
                      outcome \in {"ok", "import_error", "error"} :
                      LET c == ConnectResult(url, token, "none", outcome)
                      IN  pub' = [NewPublisher(url, token) EXCEPT
                                    !.redis = c.redis, !.created = c.created,
                                    !.connects = 1, !.id = i]
                /\ conc' = [conc EXCEPT ![i].pc = "publish", ![i].inst = i,
                                        ![i].made = TRUE]
           ELSE /\ pub' = pub
                /\ conc' = [conc EXCEPT ![i].pc = "publish", ![i].inst = pub.id]
        /\ UNCHANGED <<log, consumerVars, tg, pub_calls, health, outbox, worker>>

\* Caller i publishes through the instance it got.
GlobalPublish ==
    \E i \in DOMAIN conc, backend \in {"ok", "error"} :
        /\ conc[i].pc = "publish"
        /\ conc[i].inst = pub.id
        /\ LET r == PublishSignal(pub.redis, CallArgs(conc[i].call), backend, log)
           IN  /\ pub' = [pub EXCEPT !.xadds = @ + r.xadds]
               /\ log' = log \o r.appended
               /\ conc' = [conc EXCEPT ![i].pc = "done", ![i].ret = r.ret]
        /\ UNCHANGED <<consumerVars, tg, pub_calls, health, outbox, worker>>

GlobalNext ==
    \/ GlobalGet
    \/ GlobalPublish

GlobalSpec == GlobalInit /\ [][GlobalNext]_vars

ConcStart == \E i \in DOMAIN conc : ConcBuild(i)
ConcAppend == \E i \in DOMAIN conc : ConcXadd(i)
ConcFinish == \E i \in DOMAIN conc : ConcReturn(i)

ConcNext ==
    \/ ConcStart
    \/ ConcAppend
    \/ ConcFinish

ConcSpec == ConcInit /\ [][ConcNext]_vars

\* ------------------------------------------------------------ properties
\* The ids handle_signal has taken in this run.
Dispatched == {order[i] : i \in 1..Len(order)}

\* C1: Poison tolerance: with one malformed entry among well-formed ones, the
\* cursor moves past the malformed entry and every well-formed entry, those
\* after it included, is eventually dispatched: again and again the consumer
\* has caught up with everything appended so far.
C1_PoisonTolerance ==
    []<>(\A i \in 1..Len(log) :
            IF log[i] \in MalformedEntries THEN last_id >= i ELSE i \in Dispatched)

\* C2: Resume correctness: a consumer that processed the stream up to cursor C,
\* was stopped between entries and is started again (its tail lookups
\* succeeding) never dispatches an id <= C again, and passes no id > C without
\* dispatching it exactly once.
C2_ResumeCorrect ==
    (run > 1 /\ pc # "init" /\ stop_pc \in {"poll", "sleep"} /\ ~tail_failed) =>
        /\ \A id \in Dispatched : id > prevCursor
        /\ \A id \in (prevCursor + 1)..last_id :
              id \in Dispatched /\ id \notin redispatched

\* C3: At-least-once, in order: a --from-beginning consumer whose reads
\* eventually succeed dispatches every appended well-formed entry (again and
\* again it has dispatched all that was appended so far), and at every moment
\* the ids it has dispatched are 1, 2, 3, ... in this order, none skipped, none
\* out of order, across XREAD batches of at most 10.
C3_AtLeastOnceInOrder ==
    /\ []<>(Dispatched = 1..Len(log))
    /\ []((\A i \in 1..Len(order) : order[i] = i) /\ redispatched = {})

\* C3 witness: a stream longer than one batch has been dispatched to its end.
C3_Witness ==
    /\ Len(log) > XreadCount
    /\ Len(order) = Len(log)
    /\ last_id = Len(log)

\* C4: New-only start: a consumer started without --from-beginning dispatches
\* none of the entries the stream held at its startup, in every execution,
\* those with a failed startup tail lookup or failed reads included.
C4_NewOnlyStart ==
    (~from_beginning /\ pc # "init") => \A id \in Dispatched : id > startLen

\* C5: Dry-run isolation: with --dry-run no call of execute_buy_trade or
\* execute_sell_trade is ever made or in progress, whatever the stream holds.
C5_DryRunIsolation ==
    dry_run => (execCalls = {} /\ pc # "exec" /\ trade_result = NoResult)

\* C5 witness: a dry-run consumer has handled a BUY and a SELL entry to the end.
C5_Witness ==
    /\ dry_run
    /\ trade_count["BUY"] > 0
    /\ trade_count["SELL"] > 0

\* C6 as stated: against a backend that always times out, the call (configured
\* with a maximum of at least one) makes exactly max_retries attempts and
\* returns failure.
C6_AttemptsEqualMaxRetries ==
    (tg.pc = "done" /\ tg.backend = "always_timeout" /\ tg.max_retries >= 1) =>
        (tg.attempts = tg.max_retries /\ tg.result = FALSE)

\* C6 amended: against a backend that always times out, send_message and
\* send_document make exactly max_retries + 1 attempts (the first one and
\* max_retries retries), never more, and then return False.
C6_RetryBound ==
    tg.backend = "always_timeout" =>
        /\ tg.attempts <= tg.max_retries + 1
        /\ tg.pc = "done" =>
              (tg.attempts = tg.max_retries + 1 /\ tg.result = FALSE /\ tg.fallbacks = 0)

\* C6 witness: the default max_retries = 3 against an always-timeout backend:
\* four attempts, three waits, failure.
C6_Witness ==
    /\ tg.pc = "done"
    /\ tg.backend = "always_timeout"
    /\ tg.max_retries = DefaultMaxRetries
    /\ tg.attempts = DefaultMaxRetries + 1
    /\ tg.slept = DefaultMaxRetries
    /\ tg.result = FALSE

\* C7: Fire-and-forget publishing: a publish call on a connected publisher
\* never raises to its caller, and when anything raised inside it (building,
\* serialising, appending, logging) the caller gets null.
C7_PublishNeverRaises ==
    /\ pub.ret.kind # "raised"
    /\ pub.exc # "none" => pub.ret = RetNull

\* C7 witness: a connected publisher's XADD failed and the caller got null.
C7_Witness ==
    /\ pub.redis = "client"
    /\ pub.exc = "ConnectionError"
    /\ pub.ret = RetNull

\* C8: No-op mode: a publisher constructed without the URL or the token never
\* has a client, never creates one in connect, makes no XADD request and
\* returns null from every publish call; the stream stays as it was.
C8_NoOpMode ==
    (pub.made /\ ~(pub.url /\ pub.token)) =>
        /\ pub.redis = "none"
        /\ pub.created = 0
        /\ pub.xadds = 0
        /\ pub.ret \in {RetNone, RetNull}
        /\ log = <<>>

\* C8 witness: an unconfigured publisher was connected and then called.
C8_Witness ==
    /\ pub.made
    /\ ~pub.token
    /\ pub.connects > 0
    /\ pub_calls = MaxPublishCalls
    /\ pub.ret = RetNull

\* C9: the execution adapter never lets an exception escape: whatever the
\* backend did, the caller got a structured result with a boolean success and
\* a message.
C9_AdapterNeverRaises ==
    /\ trade_result.raised = "none"
    /\ trade_result.success \in BOOLEAN
    /\ DOMAIN trade_result = {"raised", "success", "message"}
    /\ (execCalls # {} => last_error \notin {"TimeoutError", "ImportError", "Exception", "KeyError"})

\* C9 witness: the backend raised inside the adapter, the adapter returned a
\* failure result, and the consumer went on past the entry.
C9_Witness ==
    /\ trade_result = Result(FALSE, "Exception")
    /\ execCalls # {}
    /\ message_count > 0

\* C10: no failure of a read, decode, handler or execution step ends the poll
\* loop: a failed step leaves the consumer sleeping before its next poll, and
\* the loop is stopped by the interrupt only.
C10_LoopSurvivesFailures ==
    /\ last_error # "none" => pc = "sleep"
    /\ pc = "stopped" => stop_cause = "interrupt"

\* C10 witness: a handler failure (a price that cannot be formatted) was
\* caught and the consumer is waiting to poll again.
C10_Witness ==
    /\ last_error = "ValueError"
    /\ pc = "sleep"

\* The entries of the current batch that are still to be processed are the
\* ones right after the cursor, in ascending order.
BatchFollowsCursor == \A i \in 1..Len(batch) : batch[i] = last_id + i

\* A step of the poll loop that moves the cursor.
CursorMoves == last_id' # last_id /\ pc \in {"dispatch", "exec"}

\* C11 as stated: entries are taken one at a time in ascending order and the
\* cursor is set to an entry's id only after the handler of that very entry
\* has returned.
C11_CursorOnlyAfterHandler ==
    /\ [](BatchFollowsCursor)
    /\ [][CursorMoves => (last_id' = Head(batch) /\ last_id' \in returned')]_vars

\* C11 amended: the cursor is set to the id of the entry being processed, one
\* entry at a time in ascending order, only after that entry's handler has
\* returned or after the entry was passed over because it has no (or an
\* empty) data field, for which no handler is called; it is never moved past
\* an entry that is still to be processed.
C11_CursorOnlyAfterProcessing ==
    /\ [](BatchFollowsCursor)
    /\ [](\A id \in Dispatched : last_id >= id => id \in returned)
    /\ [][CursorMoves =>
            /\ last_id' = Head(batch)
            /\ last_id' = last_id + 1
            /\ (last_id' \in returned' \/ DecodeEntry(log[last_id']).skip)]_vars

\* C11 witness: in one batch an entry without data was passed over, the next
\* entry's handler returned, and a third entry is still to be processed.
C11_Witness ==
    /\ from_beginning
    /\ pc = "dispatch"
    /\ batch # <<>>
    /\ last_id \in returned
    /\ \E id \in 1..last_id : id \notin returned /\ DecodeEntry(log[id]).skip

\* C12: Rate-limit retry: an attempt that follows a rate-limited attempt with
\* retry_after = r is started only after a sleep of r + 1 seconds has
\* returned; and when that next attempt succeeds the call returns True, having
\* made no further attempt: two attempts when the first one was rate-limited.
C12_RateLimitRetry ==
    \A i \in 1..Len(tg.trace) :
        tg.trace[i].outcome = "RetryAfter" =>
            /\ (tg.attempts > i \/ (tg.attempts = i /\ tg.pc = "attempt")) =>
                  (Len(tg.waits) >= i /\ tg.waits[i] = tg.trace[i].retry_after + 1)
            /\ (Len(tg.trace) > i /\ tg.trace[i + 1].outcome = "ok") =>
                  /\ tg.pc = "done"
                  /\ tg.result = TRUE
                  /\ tg.attempts = i + 1
                  /\ tg.fallbacks = 0

\* C12 witness: retry_after = 3 on the first attempt, a wait of 4 seconds, a
\* second attempt that succeeds: True after two attempts.
C12_Witness ==
    /\ tg.pc = "done"
    /\ tg.trace = <<[outcome |-> "RetryAfter", retry_after |-> 3],
                    [outcome |-> "ok", retry_after |-> 0]>>
    /\ tg.waits = <<4>>
    /\ tg.attempts = 2
    /\ tg.result = TRUE

\* The record of the newest entry of the stream, as a reader decodes it.
LastRecord == DecodeEntry(log[Len(log)]).signal

\* The keys publish_signal always sets, and the keys it takes from a scenario.
FixedKeys == {"type", "ticker", "company_name", "price", "source", "timestamp"}
ScenarioKeys == {"target_price", "stop_loss", "investment_period", "sector",
                 "rationale", "buy_score"}

\* scenario.get(key, 0) / scenario.get(key, "")
ScenarioDefault(k) ==
    IF k \in {"investment_period", "sector", "rationale"} THEN Str("") ELSE Num(0)

\* The fixed field k of a call with arguments a.
FixedField(a, k) ==
    CASE k = "type"         -> Str(a.signal_type)
      [] k = "ticker"       -> a.ticker
      [] k = "company_name" -> a.company_name
      [] k = "price"        -> a.price
      [] k = "source"       -> a.source
      [] OTHER              -> Timestamp

\* C13: Record composition: the record publish_signal appends has the fixed
\* fields, the six scenario keys (each from the scenario, or its default 0 /
\* "" when the scenario lacks it; none of them when no scenario or an empty
\* one is passed) and the keys of extra; a key of extra takes extra's value,
\* whatever the fixed fields and the scenario say; no other key of the
\* scenario is in the record.
C13_RecordComposition ==
    pub.appended = 1 =>
        LET rec == LastRecord
            a == pub.args
            projected == IF a.scenario # None THEN ScenarioKeys ELSE {}
        IN  /\ DOMAIN rec = FixedKeys \cup projected \cup DOMAIN a.extra_data
            /\ \A k \in DOMAIN rec :
                  rec[k] = IF k \in DOMAIN a.extra_data THEN a.extra_data[k]
                           ELSE IF k \in projected
                           THEN IF k \in DOMAIN a.scenario THEN a.scenario[k]
                                ELSE ScenarioDefault(k)
                           ELSE FixedField(a, k)
            /\ \A k \in DOMAIN a.scenario \ ScenarioKeys :
                  k \in DOMAIN rec => k \in FixedKeys \cup DOMAIN a.extra_data

\* C13 witness: a call whose scenario has a whitelisted key, lacks another and
\* has a key outside the whitelist, and whose extra overrides a scenario key
\* and a fixed field.
C13_Witness ==
    /\ pub.appended = 1
    /\ "max_portfolio_size" \in DOMAIN pub.args.scenario
    /\ "max_portfolio_size" \notin DOMAIN LastRecord
    /\ pub.args.scenario["target_price"] = Num(90000)
    /\ LastRecord["target_price"] = Num(95000)
    /\ LastRecord["stop_loss"] = Num(0)
    /\ pub.args.ticker = Str("005930")
    /\ LastRecord["ticker"] = Str("000660")

\* C14: publish_buy_signal / publish_sell_signal append a record of type BUY /
\* SELL; with a trade_result its trade_success is the result's success (False
\* if absent) and its trade_message the result's message ("" if absent);
\* without a trade_result the record has neither field.
C14_TradeResultFolded ==
    (pub.appended = 1 /\ pub.call.fn \in {"publish_buy_signal", "publish_sell_signal"}) =>
        LET rec == LastRecord
            tr == pub.call.trade_result
        IN  /\ rec["type"] = IF pub.call.fn = "publish_buy_signal"
                              THEN Str("BUY") ELSE Str("SELL")
            /\ IF tr # None
               THEN /\ {"trade_success", "trade_message"} \subseteq DOMAIN rec
                    /\ rec["trade_success"] =
                          (IF "success" \in DOMAIN tr THEN tr["success"] ELSE Bool(FALSE))
                    /\ rec["trade_message"] =
                          (IF "message" \in DOMAIN tr THEN tr["message"] ELSE Str(""))
               ELSE {"trade_success", "trade_message"} \cap DOMAIN rec = {}

\* C14 witness: a SELL published with a successful trade_result.
C14_Witness ==
    /\ pub.appended = 1
    /\ pub.call.fn = "publish_sell_signal"
    /\ pub.call.trade_result # None
    /\ "success" \in DOMAIN pub.call.trade_result
    /\ LastRecord["type"] = Str("SELL")
    /\ LastRecord["trade_success"] = Bool(TRUE)
    /\ LastRecord["trade_message"] = Str("order placed")

\* C19 as stated: an EVENT record of publish_event_signal has the fields
\* event_type, event_source and event_description, set from the arguments of
\* these names.
C19_EventFieldsAsNamed ==
    (pub.appended = 1 /\ pub.call.fn = "publish_event_signal") =>
        /\ {"event_type", "event_source", "event_description"} \subseteq DOMAIN LastRecord
        /\ LastRecord["event_type"] = pub.call.event_type
        /\ LastRecord["event_source"] = pub.call.event_source
        /\ LastRecord["event_description"] = pub.call.event_description

\* C19 amended: an EVENT record of publish_event_signal has the fields
\* event_type and event_description, set from the arguments of these names,
\* and carries the event_source argument in its source field; it has no field
\* named event_source.
C19_EventFields ==
    (pub.appended = 1 /\ pub.call.fn = "publish_event_signal") =>
        /\ LastRecord["type"] = Str("EVENT")
        /\ {"event_type", "event_description", "source"} \subseteq DOMAIN LastRecord
        /\ LastRecord["event_type"] = pub.call.event_type
        /\ LastRecord["event_description"] = pub.call.event_description
        /\ LastRecord["source"] = pub.call.event_source
        /\ "event_source" \notin DOMAIN LastRecord

\* C19 witness: an EVENT published by publish_event_signal is on the stream.
C19_Witness ==
    /\ pub.appended = 1
    /\ pub.call.fn = "publish_event_signal"
    /\ pub.ret = RetId(Len(log))
    /\ LastRecord["source"] = Str("Reuters")

\* The execution calls made for the entry id in this run.
CallsFor(id) == {c \in execCalls : c.id = id}

\* The one call an entry of type BUY / SELL is routed to.
RoutedCall(id, op) ==
    [id |-> id, op |-> op,
     ticker |-> Get(DecodeEntry(log[id]).signal, "ticker", Str(""))]

\* signal.get("type", "UNKNOWN") of the entry id.
TypeOf(id) == Get(DecodeEntry(log[id]).signal, "type", Str("UNKNOWN"))

ConcAppended == {i \in DOMAIN conc : conc[i].pc \in {"return", "done"}}

\* C18: Concurrent publishing is safe: however the steps of k concurrent
\* publish calls interleave, the stream holds one entry per call that has
\* sent its request (k entries in the end), every such call has the id of an
\* entry of its own, different from the other calls' ids, and that entry
\* holds exactly the record built from this call's arguments.
C18_ConcurrentPublishSafe ==
    /\ Len(log) = Cardinality(ConcAppended)
    /\ \A i \in ConcAppended :
          /\ conc[i].ret.kind = "id"
          /\ conc[i].ret.id \in 1..Len(log)
          /\ DecodeEntry(log[conc[i].ret.id]).signal =
                BuildSignalData(CallArgs(conc[i].call))
          /\ \A j \in ConcAppended : j # i => conc[j].ret.id # conc[i].ret.id
    /\ (\A i \in DOMAIN conc : conc[i].pc = "done") => Len(log) = Len(conc)

\* C18 witness: two calls with different arguments both built their records
\* before either sent its request, the second sent first, and both returned.
C18_Witness ==
    /\ Len(conc) = 2
    /\ conc[1].pc = "done" /\ conc[2].pc = "done"
    /\ conc[1].call # conc[2].call
    /\ conc[2].ret = RetId(1)
    /\ conc[1].ret = RetId(2)

\* The consumer was given the URL and the token of the store.
HasCredentials == launch.redis_url /\ launch.redis_token

\* C16: a consumer launched without the URL or the token never enters the
\* poll loop and ends with a non-zero exit status, and the exit status is
\* non-zero in no other case.
C16_MissingCredentialsExit ==
    /\ ~HasCredentials => pc \in {"init", "exited"}
    /\ (~HasCredentials /\ pc = "exited") => launch.exit_status > 0
    /\ launch.exit_status > 0 => ~HasCredentials

\* C17: Cancellation: the consumer never stops in the middle of a dispatch:
\* a stop signal that arrives while an entry is being executed lets the
\* execution return first.
C17_NoMidDispatchStop ==
    pc = "stopped" => stop_pc # "exec"

\* A step in which a poll cycle raised.
CycleRaises == last_error' # "none" /\ pc \in {"poll", "dispatch", "exec"}

\* C20: when a poll cycle raises, in the read or while an entry is processed,
\* the cursor stays at the last entry whose processing completed (the entries
\* of the batch done before the failure are not read again, the failed one
\* and those after it are not passed), the consumer sleeps one poll interval
\* during which the cursor does not move, and the next read is issued from
\* this cursor.
C20_RetrySameCursor ==
    /\ [][CycleRaises =>
            /\ last_id' = last_id
            /\ pc' = "sleep"
            /\ batch # <<>> => Head(batch) = last_id + 1]_vars
    /\ [][pc = "sleep" => last_id' = last_id]_vars
    /\ [][(pc = "poll" /\ pc' = "dispatch") => Head(batch') = last_id + 1]_vars
    /\ [](last_error # "none" => pc = "sleep")

\* C20 witness: the second entry of a batch raised after the first one was
\* done: the consumer sleeps with the cursor on the first entry.
C20_Witness ==
    /\ pc = "sleep"
    /\ last_error = "ValueError"
    /\ last_id = 1
    /\ startLen = 2
    /\ from_beginning
    /\ Dispatched = {1, 2}
    /\ returned = {1}

C22_TimeoutRetriedAtCallSite ==
    [][(/\ pc = "exec"
        /\ trade_result' = Result(FALSE, "TimeoutError")
        /\ Head(batch) \notin reExecuted)
       => last_id' = last_id]_vars

\* C23: whatever the outcomes of the requests (rate limit, timeout, parse
\* error, other error, in any order), send_message / send_document make at
\* most max_retries + 1 formatted attempts (one retry counter for rate limit
\* and timeout), send_message at most one unformatted attempt and
\* send_document none, and the call ends with True or False.
C23_BoundedRetry ==
    /\ [](/\ tg.attempts <= tg.max_retries + 1
          /\ tg.retry_count <= tg.max_retries
          /\ tg.pc = "attempt" => tg.attempts = tg.retry_count
          /\ tg.slept <= tg.attempts
          /\ tg.fallbacks <= 1
          /\ tg.op = "send_document" => tg.fallbacks = 0
          /\ tg.pc = "done" => tg.result \in BOOLEAN)
    /\ <>(tg.pc = "done")

\* C23 witness: max_retries = 2; a rate-limited attempt, a timed-out attempt,
\* a third attempt with a parse error, the unformatted attempt failing: False
\* after three formatted attempts and one fallback.
C23_Witness ==
    /\ tg.pc = "done"
    /\ tg.op = "send_message"
    /\ tg.max_retries = 2
    /\ Len(tg.trace) = 3
    /\ tg.trace[1].outcome = "RetryAfter"
    /\ tg.trace[2].outcome = "TimedOut"
    /\ tg.trace[3].outcome = "ParseError"
    /\ tg.fallbacks = 1
    /\ tg.result = FALSE

\* C24: when the attempt made after c earlier retries (of either kind) times
\* out and c < max_retries, the call sleeps exactly 2^c seconds, and the next
\* attempt is made only after that sleep.
C24_ExponentialBackoff ==
    \A i \in 1..Len(tg.trace) :
        (tg.trace[i].outcome = "TimedOut" /\ i - 1 < tg.max_retries) =>
            /\ (tg.pc = "sleep" /\ Len(tg.waits) = i - 1) => tg.wait = 2^(i - 1)
            /\ Len(tg.waits) >= i => tg.waits[i] = 2^(i - 1)
            /\ tg.attempts > i => Len(tg.waits) >= i
            /\ tg.pc = "done" => Len(tg.trace) > i

\* C24 witness: max_retries = 3; the first attempt is rate-limited with
\* retry_after = 1, the next three time out: waits of 2 (rate limit), then 2
\* and 4 (timeouts after one and two retries), then False.
C24_Witness ==
    /\ tg.pc = "done"
    /\ tg.max_retries = 3
    /\ Len(tg.trace) = 4
    /\ tg.trace[1] = [outcome |-> "RetryAfter", retry_after |-> 1]
    /\ \A i \in 2..4 : tg.trace[i].outcome = "TimedOut"
    /\ tg.waits = <<2, 2, 4>>
    /\ tg.result = FALSE

\* C25: an attempt that fails with an error that is neither a rate limit nor
\* a timeout nor a parse error is the last one: the call has returned False
\* right after it, with no sleep after it, no further attempt and no
\* unformatted attempt.
C25_OtherErrorsTerminal ==
    \A i \in 1..Len(tg.trace) :
        tg.trace[i].outcome = "TelegramError" =>
            /\ i = Len(tg.trace)
            /\ tg.pc = "done"
            /\ tg.result = FALSE
            /\ tg.attempts = i
            /\ Len(tg.waits) = i - 1
            /\ tg.fallbacks = 0

\* C25 witness: with retries left (max_retries = 3), a timed-out attempt, the
\* wait, then an attempt failing with another error: False after two attempts
\* and one sleep.
C25_Witness ==
    /\ tg.pc = "done"
    /\ tg.max_retries = 3
    /\ Len(tg.trace) = 2
    /\ tg.trace[1].outcome = "TimedOut"
    /\ tg.trace[2].outcome = "TelegramError"
    /\ tg.waits = <<1>>
    /\ tg.result = FALSE

\* C26: send_message called with a parse mode makes the unformatted attempt
\* after a formatted attempt that failed with a parse error, and only then;
\* it makes it once, makes no formatted attempt after it, and returns True if
\* that attempt succeeded and False if it failed with any error.
\* send_document never makes one.
C26_ParseFallback ==
    /\ tg.fallbacks <= 1
    /\ (tg.pc = "fallback" \/ tg.fallbacks = 1) =>
          /\ tg.op = "send_message"
          /\ tg.parse_mode
          /\ tg.trace[Len(tg.trace)].outcome = "ParseError"
          /\ tg.attempts = Len(tg.trace)
    /\ tg.pc = "fallback" => tg.fallbacks = 0
    /\ tg.fallbacks = 1 => (tg.pc = "done" /\ tg.result = (tg.fallback = "ok"))
    /\ \A i \in 1..Len(tg.trace) :
          (tg.trace[i].outcome = "ParseError" /\ tg.op = "send_message" /\ tg.parse_mode) =>
              /\ i = Len(tg.trace)
              /\ tg.pc = "fallback" \/ (tg.pc = "done" /\ tg.fallbacks = 1)

\* C26 witness: a parse error on a retried formatted attempt, then the
\* unformatted attempt is rate-limited: False, with no sleep and no attempt
\* after it.
C26_Witness ==
    /\ tg.pc = "done"
    /\ tg.op = "send_message"
    /\ Len(tg.trace) = 2
    /\ tg.trace[1].outcome = "TimedOut"
    /\ tg.trace[2].outcome = "ParseError"
    /\ tg.fallbacks = 1
    /\ tg.fallback = "RetryAfter"
    /\ tg.slept = 1
    /\ tg.result = FALSE

\* C27: the cursor the consumer enters its poll loop with is 0 with
\* --from-beginning; without it, the id of the newest entry the stream holds
\* at startup, which is 0 for an empty stream.
C27_InitialCursor ==
    [][(pc = "init" /\ pc' = "poll") =>
          last_id' = IF from_beginning THEN 0 ELSE Len(log)]_vars

\* C28: the step the consumer takes after a read that returned no entry is a
\* sleep (unless the read raised or the process is interrupted), so a read is
\* never followed directly by a read; the loop goes to sleep only from a read
\* that returned nothing or from a step that raised; and when the last entry
\* of a batch is done without an error the next step is a read, not a sleep.
C28_NoBusyWaiting ==
    [][/\ (pc = "poll" /\ consumerVars' # consumerVars) =>
              /\ pc' \in {"dispatch", "sleep", "stopped"}
              /\ pc' = "dispatch" => XRead(log, last_id, XreadCount) # <<>>
              /\ (pc' = "sleep" /\ last_error' = "none") =>
                    XRead(log, last_id, XreadCount) = <<>>
       /\ (pc # "sleep" /\ pc' = "sleep") =>
              \/ last_error' # "none"
              \/ pc = "poll" /\ XRead(log, last_id, XreadCount) = <<>>
       /\ (pc \in {"dispatch", "exec"} /\ last_error' = "none" /\ batch' = <<>>
              /\ pc' # "stopped") => pc' = "poll"
       /\ pc = "sleep" => pc' \in {"sleep", "poll", "stopped"}]_vars

\* C28 witness: the consumer has handled a batch, read again at once, found
\* nothing new, and is asleep.
C28_Witness ==
    /\ pc = "sleep"
    /\ last_error = "none"
    /\ message_count = 2
    /\ last_id = Len(log)
    /\ redispatched = {}
    /\ tail_failed = FALSE

\* C29: whenever no health-check run is in progress (each run made so far
\* has returned or raised), prism:health:log holds at most 100 entries, and
\* they are the newest ones pushed.
C29_ListCapped ==
    health.pc = 0 =>
        /\ Len(health.list) <= HealthLogCap
        /\ \A i \in 1..Len(health.list) : health.list[i] = health.pushes + 1 - i

C31_ReadersNeverMutate ==
    [][/\ consumerVars' # consumerVars => log' = log
       /\ Len(log') >= Len(log)
       /\ \A i \in 1..Len(log) : log'[i] = log[i]]_vars

\* C31 witness: a live consumer has resolved its cursor by the tail lookup,
\* read, dispatched and executed an entry, met a raising entry and slept, with
\* the stream holding both entries.
C31_Witness ==
    /\ ~from_beginning
    /\ ~dry_run
    /\ startLen = 0
    /\ Len(log) = 2
    /\ execCalls # {}
    /\ 1 \in returned
    /\ last_error # "none"
    /\ pc = "sleep"

\* C32: a publish call returns an id exactly when it appended its record: a
\* call that returned null added no entry to the stream, and a call that
\* returned an id added one.
C32_NullMeansNotAppended ==
    pub.call.fn # "none" =>
        /\ pub.ret.kind = "null" => pub.appended = 0
        /\ pub.ret.kind = "id" => pub.appended = 1

\* C33: every call the consumer makes into the trading backend carries a
\* non-empty ticker.
C33_NoEmptyTickerExecuted ==
    \A c \in execCalls : c.ticker # Str("")

\* C34: during a run the cursor never decreases and never exceeds the newest
\* id of the stream; it changes only at startup, to 0 or to the id the tail
\* lookup gave, and in the poll loop, to the id of the next entry of the batch
\* the last read returned, an id above the cursor.
C34_CursorMonotonic ==
    /\ [](last_id <= Len(log) /\ last_id >= 0)
    /\ [][/\ last_id' >= last_id
          /\ last_id' # last_id =>
                \/ pc = "init" /\ last_id' = Len(log)
                \/ /\ pc \in {"dispatch", "exec"}
                   /\ last_id' = Head(batch)
                   /\ last_id' > last_id]_vars

\* C34 witness: started at the tail id 1, the consumer has moved its cursor
\* through a batch of two entries to the newest id.
C34_Witness ==
    /\ ~from_beginning
    /\ ~tail_failed
    /\ startLen = 1
    /\ Len(log) = 3
    /\ last_id = 3
    /\ pc = "poll"

\* C35: a consumer started without --from-beginning and left running
\* dispatches every entry appended after its startup lookup returned, those
\* appended before its first read included: again and again all of them have
\* been dispatched, first to last.
C35_NoLossAtStartup ==
    /\ []<>(pc # "init" /\ (startLen + 1)..Len(log) \subseteq Dispatched)
    /\ [](pc # "init" =>
            \A i \in (startLen + 1)..last_id : i \in Dispatched)

\* C35 witness: the tail lookup found one entry; two entries were appended
\* before the first read returned; both have been dispatched, the older entry
\* has not.
C35_Witness ==
    /\ ~tail_failed
    /\ startLen = 1
    /\ Len(log) = 3
    /\ Dispatched = {2, 3}
    /\ message_count = 2

\* C36: whatever the order in which concurrent callers run, at most one of
\* them constructs a SignalPublisher; once a caller has got its publisher
\* exactly one was constructed and connect was called once on it; every caller
\* holds that instance; and when its connect left no client every publish
\* through it has returned null and no request was sent.
C36_SingleGlobalPublisher ==
    LET makers == {i \in DOMAIN conc : conc[i].made}
        got == {i \in DOMAIN conc : conc[i].pc # "get"}
    IN  /\ Cardinality(makers) <= 1
        /\ got # {} =>
              /\ Cardinality(makers) = 1
              /\ pub.made
              /\ pub.connects = 1
              /\ pub.created <= 1
        /\ \A i \in got : conc[i].inst = pub.id
        /\ (pub.made /\ pub.redis = "none") =>
              /\ pub.xadds = 0
              /\ \A i \in DOMAIN conc : conc[i].pc = "done" => conc[i].ret = RetNull

\* C36 witness: two callers; the first made the publisher, whose connect gave
\* no client; both have published through it and got null.
C36_Witness ==
    /\ Len(conc) = 2
    /\ conc[1].made /\ ~conc[2].made
    /\ conc[1].pc = "done" /\ conc[2].pc = "done"
    /\ conc[2].inst = 1
    /\ pub.url /\ pub.token
    /\ pub.redis = "none"
    /\ conc[1].ret = RetNull /\ conc[2].ret = RetNull

\* C37: every sleep of send_message / send_document is followed by a further
\* attempt: a call that is asleep goes on to retry, and a call that has
\* returned slept fewer times than it made attempts.
C37_NoWaitAfterLastAttempt ==
    /\ tg.pc = "sleep" => tg.then = "retry"
    /\ tg.pc = "done" => tg.slept < tg.attempts

\* ------------------------------------------------ the message directory
\* process_messages_directory up to its loop: no directory or no matching file
\* returns 0; otherwise message_files is the glob's result and, when sent_dir
\* is given, sent_dir is made, which can raise out of the call.
DirStart ==
    /\ outbox.pc = "idle"
    /\ outbox.runs < MaxDirRuns
    /\ \E exists \in BOOLEAN, mkdirOk \in BOOLEAN :
          LET message_files ==
                  SelectSeq([f \in DOMAIN outbox.files |-> f],
                            LAMBDA f : outbox.files[f].match)
              begun == [outbox EXCEPT !.runs = @ + 1, !.success_count = 0,
                                      !.sent_now = 0, !.raised = FALSE]
          IN  /\ ~outbox.sent_dir => mkdirOk
              /\ outbox' =
                     IF ~exists \/ message_files = <<>>
                     THEN [begun EXCEPT !.returned = 0]
                     ELSE IF ~mkdirOk
                     THEN [begun EXCEPT !.raised = TRUE]
                     ELSE [begun EXCEPT !.pc = "send", !.queue = message_files]
    /\ UNCHANGED <<log, consumerVars, tg, pub, pub_calls, conc, health, worker>>

\* One turn of the loop over message_files: the file is read and sent; when
\* send_message returned True the count goes up and the file is renamed (into
\* sent_dir, or to <stem>_sent.txt). Whatever raises in the turn (the read,
\* the rename) is logged by the except clause and the loop goes on. After the
\* last file the count is returned.
DirSend ==
    /\ outbox.pc = "send"
    /\ \E step \in {"read_raises", "send_false", "renamed", "rename_raises"} :
          LET f == Head(outbox.queue)
              success == step \in {"renamed", "rename_raises"}
              turned == [outbox EXCEPT
                            !.queue = Tail(@),
                            !.success_count = IF success THEN @ + 1 ELSE @,
                            !.sent_now = IF success THEN @ + 1 ELSE @,
                            !.files[f].sends = IF success THEN @ + 1 ELSE @,
                            !.files[f].match = IF step = "renamed" THEN FALSE ELSE @]
          IN  outbox' = IF turned.queue = <<>>
                        THEN [turned EXCEPT !.pc = "idle",
                                            !.returned = turned.success_count]
                        ELSE turned
    /\ UNCHANGED <<log, consumerVars, tg, pub, pub_calls, conc, health, worker>>

DirInit ==
    /\ InitConsumer({FALSE}, {TRUE})
    /\ tg = TgIdle
    /\ pub = NoPublisher /\ pub_calls = 0 /\ conc = <<>>
    /\ health = HealthIdle(0) /\ worker = NoWorker
    /\ \E n \in 0..MaxFiles, d \in BOOLEAN :
          outbox = [NoOutbox EXCEPT
                       !.files = [f \in 1..n |-> [match |-> TRUE, sends |-> 0]],
                       !.sent_dir = d]

DirNext ==
    \/ DirStart
    \/ DirSend

DirSpec == DirInit /\ [][DirNext]_vars

\* C38: a message file is sent at most once across the runs of
\* process_messages_directory: no file has had send_message return True for it
\* twice; a file still matches *_telegram.txt in the directory exactly when no
\* send of it has succeeded; and the count a run returns is the number of
\* files whose send returned True in that run.
C38_SentAtMostOnce ==
    /\ \A f \in DOMAIN outbox.files : outbox.files[f].sends <= 1
    /\ \A f \in DOMAIN outbox.files :
          outbox.files[f].match <=> outbox.files[f].sends = 0
    /\ (outbox.pc = "idle" /\ ~outbox.raised) => outbox.returned = outbox.sent_now

\* ------------------------------------------------- the analysis worker
\* The top of the worker's loop: a request is taken from analysis_queue and
\* entered in the bot's pending_requests.
WorkerGet ==
    /\ worker.pc = "get"
    /\ worker.queue # <<>>
    /\ worker' = [worker EXCEPT !.pc = "analyse",
                                !.request = Head(worker.queue),
                                !.queue = Tail(@),
                                !.taken = @ + 1,
                                !.pending_requests = @ \cup {Head(worker.queue)}]
    /\ UNCHANGED <<log, consumerVars, tg, pub, pub_calls, conc, health, outbox>>

\* The status the inner try block leaves in request.status: a cached report
\* or a generated report is completed, an evaluate request is skipped, an empty
\* report is failed; whatever raises (the cache lookup, the generation, the
\* saving of a generated report, which comes after status = "completed") ends
\* in the except clause, which sets failed.
AnalysisStatus(outcome) ==
    CASE outcome = "cached"   -> "completed"
      [] outcome = "evaluate" -> "skipped"
      [] outcome = "report"   -> "completed"
      [] outcome = "empty"    -> "failed"
      [] OTHER                -> "failed"

\* A worker whose except clause does not put the id on result_queue.
WorkerAnalyseDropsFailed ==
    /\ worker.pc = "analyse"
    /\ \E outcome \in {"cached", "raises_cache", "evaluate", "report", "empty",
                        "raises_generate", "raises_save"} :
          LET id == worker.request
              raised == outcome \in {"raises_cache", "raises_generate", "raises_save"}
          IN  /\ outcome = "evaluate" => worker.evaluate[id]
              /\ outcome \in {"report", "empty", "raises_generate", "raises_save"}
                     => ~worker.evaluate[id]
              /\ worker' = [worker EXCEPT
                     !.pc = "get",
                     !.status[id] = AnalysisStatus(outcome),
                     !.outcomes = Append(@, outcome),
                     !.result_queue =
                         IF raised THEN @
                         ELSE Append(@, [id |-> id, status |-> AnalysisStatus(outcome)]),
                     !.task_done = @ + 1]
    /\ UNCHANGED <<log, consumerVars, tg, pub, pub_calls, conc, health, outbox>>

\* The rest of the turn: the inner try block (cache lookup; evaluate requests
\* skipped; report generated and saved, or empty), the put of the id on the
\* bot's result_queue at its end or in its except clause, and task_done in the
\* finally clause. The worker is back at the top of its loop.
WorkerAnalyse ==
    /\ worker.pc = "analyse"
    /\ \E outcome \in {"cached", "raises_cache", "evaluate", "report", "empty",
                        "raises_generate", "raises_save"} :
          LET id == worker.request
          IN  /\ outcome = "evaluate" => worker.evaluate[id]
              /\ outcome \in {"report", "empty", "raises_generate", "raises_save"}
                     => ~worker.evaluate[id]
              /\ worker' = [worker EXCEPT
                     !.pc = "get",
                     !.status[id] = AnalysisStatus(outcome),
                     !.outcomes = Append(@, outcome),
                     !.result_queue =
                         Append(@, [id |-> id, status |-> AnalysisStatus(outcome)]),
                     !.task_done = @ + 1]
    /\ UNCHANGED <<log, consumerVars, tg, pub, pub_calls, conc, health, outbox>>

\* Requests as AnalysisRequest makes them (status pending), already queued in
\* the order of their ids; evaluate: avg_price and period are both given.
WorkerInit ==
    /\ InitConsumer({FALSE}, {TRUE})
    /\ tg = TgIdle
    /\ pub = NoPublisher /\ pub_calls = 0 /\ conc = <<>>
    /\ health = HealthIdle(0) /\ outbox = NoOutbox
    /\ \E n \in 0..MaxRequests :
          \E ev \in [1..n -> BOOLEAN] :
             worker = [NoWorker EXCEPT
                          !.queue = [i \in 1..n |-> i],
                          !.evaluate = ev,
                          !.status = [i \in 1..n |-> "pending"]]

WorkerNext ==
    \/ WorkerGet
    \/ WorkerAnalyse

\* The worker is a thread that loops for ever; the analysis calls return or
\* raise.
WorkerSpec == WorkerInit /\ [][WorkerNext]_vars /\ WF_vars(WorkerNext)

\* C39: every request taken from analysis_queue and worked off has its id on
\* result_queue exactly once and one task_done to its name, whatever the
\* outcome; a request not yet worked off has none; the status recorded when
\* the id was put is completed, failed or skipped, never pending; and the
\* worker goes on after failures: in the end every queued request is on
\* result_queue.
C39_WorkerPutsOnce ==
    LET finished == worker.taken - (IF worker.pc = "analyse" THEN 1 ELSE 0)
        puts(id) == Cardinality({k \in DOMAIN worker.result_queue :
                                    worker.result_queue[k].id = id})
    IN  /\ [](/\ \A id \in DOMAIN worker.status :
                    puts(id) = IF id <= finished THEN 1 ELSE 0
              /\ worker.task_done = finished
              /\ Len(worker.result_queue) = finished
              /\ \A k \in DOMAIN worker.result_queue :
                    /\ worker.result_queue[k].status \in {"completed", "failed", "skipped"}
                    /\ worker.result_queue[k].status = worker.status[worker.result_queue[k].id])
        /\ <>[](\A id \in DOMAIN worker.status : puts(id) = 1)

\* C39 witness: three requests were worked off; the first raised while its
\* report was being saved, the second was an evaluate request, the third had
\* a cached report; all three ids are on result_queue.
C39_Witness ==
    /\ worker.outcomes = <<"raises_save", "evaluate", "cached">>
    /\ worker.pc = "get"
    /\ worker.task_done = 3
    /\ [k \in 1..3 |-> worker.result_queue[k].status] = <<"failed", "skipped", "completed">>

====
